---- MODULE Spec2Model ----
(***************************************************************************)
(* A model of the WebDAV front end of go-aliyundrive-webdav: the PUT       *)
(* handler (webdav/webdav.go, Handler.handlePut) and the upload engine it  *)
(* drives (aliyun/tool.go, ContentHandle), over the process-wide cache,    *)
(* the spool files and the backend's view of the uploads.                  *)
(*                                                                         *)
(* Byte counts are Go int64 values that do not fit TLC's integers (the     *)
(* rapid-upload limit is 25 GiB), so a byte count is held as two limbs,    *)
(* [m |-> whole MiB, b |-> remaining bytes], of value m * 2^20 + b with    *)
(* 0 <= b < 2^20; -1 is [m |-> -1, b |-> 2^20 - 1].                        *)
(***************************************************************************)
EXTENDS Integers, Sequences, FiniteSets, TLC

(* ------------------------------ bounds -------------------------------- *)

\* Largest number of chunks of a modelled PUT body.
MaxChunks == 3

\* Largest clock value; the clock stops there.
MaxTime == 2

\* The clock of the configuration model stops at MaxClock seconds, and
\* RefreshToken is called at most MaxGen times after the start.
MaxClock == 300

MaxGen == 2

\* Whole-MiB part of the largest size the sizing harness enumerates below
\* the neighbourhood of the rapid-upload limit.
MaxSizeMiB == 24

(* --------------------------- byte counts ------------------------------ *)

MiB == 1024 * 1024

\* The byte count m * 2^20 + b, with the carry of b taken into m.
Sz(m, b) == [m |-> m + (b \div MiB), b |-> b % MiB]

SzLT(x, y) == x.m < y.m \/ (x.m = y.m /\ x.b < y.b)

SzLE(x, y) == x = y \/ SzLT(x, y)

SzAdd(x, y) == Sz(x.m + y.m, x.b + y.b)

SzSub(x, y) == Sz(x.m - y.m, x.b - y.b)

\* int64(i) * d, for a d that is a whole number of MiB.
SzTimes(i, d) == Sz(i * d.m, i * d.b)

SzMin(x, y) == IF SzLT(x, y) THEN x ELSE y

Zero == Sz(0, 0)

\* r.ContentLength of a request whose length is not declared.
UnknownLength == Sz(0, -1)

(* --------------------- ContentHandle: arithmetic ---------------------- *)

\* const DEFAULT int64 = 10485760
DEFAULT == Sz(0, 10485760)

\* 1024*150
RapidMin == Sz(0, 1024 * 150)

\* 1024*1024*1024*25
RapidMax == Sz(1024 * 25, 0)

\* math.Ceil(float64(n) / float64(d)) for n > 0 and a d that is a whole
\* number of MiB; exact, as float64 is for every n below 2^53.
CeilDiv(n, d) ==
    (n.m \div d.m) + (IF n.m % d.m = 0 /\ n.b = 0 THEN 0 ELSE 1)

\* A part count that rounds down and adds one part.
ChunkCount_RoundDown(n) == (n.m \div DEFAULT.m) + 1

\* count = math.Ceil(float64(r.ContentLength) / float64(DEFAULT))
ChunkCount(n) == CeilDiv(n, DEFAULT)

\* len(dataByte) of part i (from 0) of a body of n bytes cut in count parts.
ChunkLen(n, count, i) ==
    IF count = 1 THEN n
    ELSE IF i = count - 1 THEN SzSub(n, SzTimes(i, DEFAULT))
    ELSE DEFAULT

\* An eligibility test that admits a body of exactly 150 KiB.
PreHashEligible_From150K(n) == SzLE(RapidMin, n) /\ SzLE(n, RapidMax)

\* r.ContentLength > 1024*150 && r.ContentLength <= 1024*1024*1024*25
PreHashEligible(n) == SzLT(RapidMin, n) /\ SzLE(n, RapidMax)

\* sha1_0, the SHA-1 of the empty byte sequence.
Sha1Empty == "DA39A3EE5E6B4B0D3255BFEF95601890AFD80709"

\* The contents a request body can have; "" is the empty byte sequence.
Bodies == {"x"}

\* strings.ToUpper(hex.EncodeToString(h2.Sum(nil))): the SHA-1 of the whole
\* spool file, a value fixed by the content it was computed from.
FullSha1(body) ==
    CASE body = "" -> Sha1Empty
      [] body = "x" -> "SHA1-OF-X"
      [] OTHER -> "SHA1-OF-Y"

\* The values of strconv.ParseUint(md5(token)[:16], 16, 64) the model draws.
HashWords == {0, 1024 * 150}

\* f % uint64(r.ContentLength), for an f below 2^30.
SzMod(f, n) ==
    IF n.m >= 1024 THEN Sz(0, f) ELSE Sz(0, f % (n.m * MiB + n.b))

\* A window of 8 bytes whatever is left of the content.
ProofEnd_Unclamped(offset, n) == SzAdd(offset, Sz(0, 8))

\* end := math.Min(float64(offset+8), float64(r.ContentLength))
ProofEnd(offset, n) == SzMin(SzAdd(offset, Sz(0, 8)), n)

\* The proof of an upload for which none was computed: var proof string = "".
NoProof == [body |-> "", from |-> Zero, to |-> Zero]

\* utils.GetProof(off): base64 of the bytes [offset, end) of the spool file.
GetProof(body, offset, end) ==
    IF offset = end THEN NoProof ELSE [body |-> body, from |-> offset, to |-> end]

\* A create call that leaves the proof out.
CreateArgs_NoProof(n, count, probed, sha, proof, flashUpload) ==
    [size |-> n, parts |-> count, hash |-> IF probed THEN sha ELSE "",
     proof |-> NoProof, flash |-> probed /\ flashUpload]

\* The arguments ContentHandle gives UpdateFileFile for a body of n > 0
\* bytes: the size, the part count, the hash, the proof and the rapid flag.
\* probed is whether the pre-hash branch was taken.
CreateArgs(n, count, probed, sha, proof, flashUpload) ==
    IF probed
    THEN [size |-> n, parts |-> count, hash |-> sha, proof |-> proof,
          flash |-> flashUpload]
    ELSE [size |-> n, parts |-> count, hash |-> "", proof |-> NoProof,
          flash |-> FALSE]

\* A zero-length create call that carries no hash.
ZeroCreateArgs_NoHash ==
    [size |-> Zero, parts |-> 1, hash |-> "", proof |-> NoProof,
     flash |-> TRUE]

\* The arguments of the create call of the zero-length path.
ZeroCreateArgs ==
    [size |-> Zero, parts |-> 1, hash |-> Sha1Empty, proof |-> NoProof,
     flash |-> TRUE]

(* ------------------------------ the state ----------------------------- *)

\* The goroutines of two PUT requests that net/http serves at once.
Racers == {1, 2}

VARIABLES
    goos,      \* runtime.GOOS of the build that runs
    now,       \* the clock, in lifetimes of an upload URL
    cache,     \* cache.GoCache: key -> value
    remote,    \* the file objects the backend holds
    nreq,      \* requests started so far
    rq,        \* the request each serving goroutine handles
    calc,      \* the sizing harness: one evaluation of the arithmetic
    ls,        \* h.LockSystem: the lock table
    dav,       \* the request a handler other than handlePut serves
    net,       \* one call of a function of package net
    cfg        \* h.Config, the clock in seconds, and who reads and writes it

vars == <<goos, now, cache, remote, nreq, rq, calc, ls, dav, net, cfg>>

\* The goroutines that serve requests.
Procs == {1}

\* The request paths, as strings.Split(reqPath, "/") of the path without
\* the handler's prefix: "f", "a/f" and, in a folder that does not exist,
\* "b/f".
Paths == {<<"f">>, <<"a", "f">>, <<"b", "f">>}

\* The folders of the drive: strings.Split of the path -> file id.
Folders ==
    (<<"">> :> "root") @@ (<<"a">> :> "ida") @@ (<<"cc">> :> "idc")
    @@ (<<"a", "d">> :> "idd")

\* The file ids the backend hands out, in order.
FileIds == <<"n1", "n2", "n3", "n4">>

\* The body lengths of the modelled requests: unknown, 0, 1 byte, the two
\* sides of the rapid-upload threshold, 8 MiB, the two sides of the first
\* chunk boundary, and 3 MiB more than MaxChunks - 1 chunks (23 MiB).
Lengths ==
    {UnknownLength, Zero, Sz(0, 1), RapidMin, SzAdd(RapidMin, Sz(0, 1)), Sz(8, 0),
     DEFAULT, SzAdd(DEFAULT, Sz(0, 1)),
     SzAdd(SzTimes(MaxChunks - 1, DEFAULT), Sz(3, 0))}

\* A cache key: a Go string prefix + strings.Join(segs, "/"). The paths ""
\* (no segment) and Split("", "/") (one empty segment) are the same string.
Key(prefix, segs) == <<prefix, IF segs = <<"">> THEN <<>> ELSE segs>>

CacheHas(c, k) == k \in DOMAIN c

\* cache.GoCache.Set(k, v, -1) and SetDefault(k, v)
CacheSet(c, k, v) == [x \in DOMAIN c \cup {k} |-> IF x = k THEN v ELSE c[x]]

\* cache.GoCache.Delete(k)
CacheDelete(c, k) == [x \in DOMAIN c \ {k} |-> c[x]]

\* An upload-URL list: n URLs, all carrying x-oss-expires = exp.
NoUrls == [n |-> 0, exp |-> 0]

\* A request that is not being served, and the locals of a fresh one.
IdleReq ==
    [pc |-> "idle", no |-> 0, path |-> <<"">>, rooted |-> TRUE,
     darwin |-> FALSE, len |-> Zero, body |-> "",
     parentFileId |-> "", parentId |-> "", fileName |-> "",
     count |-> 1, f |-> 0, offset |-> Zero, proof |-> NoProof, flashUpload |-> FALSE,
     code |-> 0, probed |-> FALSE, sha |-> "", uploadUrl |-> NoUrls,
     uploadFileId |-> "", i |-> 0, tries |-> 0, dataLen |-> Zero,
     fileExists |-> FALSE, fileOpen |-> FALSE, deferred |-> FALSE,
     ret |-> "", panicked |-> FALSE, marked |-> FALSE, status |-> 0,
     \* what the request has done so far
     spooled |-> FALSE, probes |-> 0, creates |-> <<>>, created |-> "",
     sent |-> <<>>, renewed |-> FALSE, renewCalls |-> 0, completes |-> 0, completeOk |-> FALSE,
     failures |-> {}, exhausted |-> FALSE, fidSet |-> FALSE, listed |-> FALSE,
     \* l.Items of the cached listing ContentHandle read
     l |-> <<>>]

\* The sizing harness at rest.
IdleCalc ==
    [phase |-> "idle", n |-> Zero, count |-> 0, branch |-> "", args |-> ZeroCreateArgs,
     i |-> 0, lens |-> <<>>, sum |-> Zero, f |-> 0, offset |-> Zero, proof |-> NoProof]

\* NewMemLS(): a lock table without a lock; gen numbers the tokens.
NoLocks == [gen |-> 0, locks |-> {}]

\* A request without an If header.
NoIf == [hdr |-> "", lists |-> <<>>]

\* No request at a handler other than handlePut, and the locals of a fresh
\* one: the request (auth: its credentials; clen: its ContentLength, -1
\* if not declared; depth: its Depth header), the arguments of
\* confirmLocks, and what the request has done so far (its number, its
\* branch, the backend calls that change the drive, the backend calls that
\* read it, whether it read the cache, the temporary locks it took, the
\* locks it holds, the If list used, the token granted, the object it
\* found, whether the handler returned an error, the response fragments
\* written, and the lock table, the drive and the cache it found). inval:
\* the paths whose "FID_" entry was deleted by an earlier request and has
\* not been set since; dropped: those whose entry this request deleted.
IdleDav ==
    [pc |-> "idle", no |-> 0, method |-> "", src |-> <<"">>, rooted |-> TRUE, dst |-> <<"">>,
     ifh |-> NoIf, body |-> "", clen |-> 0, depth |-> "", dur |-> -1, token |-> 0,
     auth |-> "ok",
     csrc |-> <<"">>, cdst |-> <<"">>, branch |-> "", status |-> 0,
     panicked |-> FALSE, calls |-> <<>>, temp |-> {}, held |-> {}, used |-> 0,
     granted |-> 0, target |-> "", inval |-> {}, dropped |-> {}, err |-> FALSE, reads |-> {}, cread |-> FALSE, out |-> <<>>,
     ls0 |-> NoLocks, remote0 |-> {}, cache0 |-> <<>>]

\* No call of package net under way: the function called, whether
\* ioutil.ReadAll succeeded, what client.Do gave at each attempt (0: an
\* error, no response) and the status returned.
IdleNet == [pc |-> "idle", fn |-> "", read |-> TRUE, tried |-> <<>>, ret |-> 0]

\* The goroutines that serve the requests of the configuration model.
Clients == {"c1"}

\* The fields of model.Config.
Fields == {"RefreshToken", "Token", "DriveId", "ExpireTime"}

\* What RefreshToken answers the g-th time, at second t, for a token that
\* lives life seconds: the three strings stand for their generation.
Snapshot(g, t, life) ==
    [RefreshToken |-> g, Token |-> g, DriveId |-> g, ExpireTime |-> t + life]

\* The empty string of a RefreshToken result that carries nothing.
NoCredential == -1

\* What RefreshToken answers when the call fails: the empty result, so
\* that ExpireTime is the second of the call.
EmptyResult(t) ==
    [RefreshToken |-> NoCredential, Token |-> NoCredential, DriveId |-> NoCredential,
     ExpireTime |-> t]

\* The seconds an access token lives (ExpiresIn).
Lifetimes == {100, 200}

\* A goroutine that is not working with h.Config. new, pending: the
\* Config it is assigning and the fields not yet written; at, exp: the
\* clock and h.Config.ExpireTime when its request was dispatched; tok,
\* drv: the generations of the token and the drive id it read for a
\* backend call.
IdleClient ==
    [pc |-> "idle", new |-> Snapshot(0, 0, 0), pending |-> {}, at |-> 0, exp |-> 0,
     tok |-> 0, drv |-> 0]

\* After main's RefreshToken: the first Config, the clock at 0, no request
\* and the refresher waiting for its timer.
IdleCfg ==
    [clock |-> 0, gen |-> 0, Config |-> Snapshot(0, 0, 100),
     c |-> [p \in Clients |-> IdleClient],
     r |-> [pc |-> "idle", new |-> Snapshot(0, 0, 0), pending |-> {}]]

Init ==
    /\ goos \in {"linux", "windows"}
    /\ now = 0
    /\ cache = <<>>
    /\ remote = {}
    /\ nreq = 0
    /\ rq = [p \in Procs |-> IdleReq]
    /\ calc = IdleCalc
    /\ ls = NoLocks
    /\ dav = IdleDav
    /\ net = IdleNet
    /\ cfg = IdleCfg

\* A blocking step (disk or network traffic, a sleep) takes no time to
\* speak of, or one lifetime of an upload URL.
Elapse == \E dt \in {0, 1} : now' = IF now + dt > MaxTime THEN MaxTime ELSE now + dt

\* rq with the request of p replaced by r.
Upd(p, r) == rq' = [rq EXCEPT ![p] = r]

\* strings.Index(reqPath, "._") > -1, for the modelled paths.
HasDotUnderscore(path) == \E k \in 1..Len(path) : path[k] = "._f"

\* strings.HasSuffix(reqPath, "/")
HasSuffixSlash(path) == Len(path) >= 2 /\ path[Len(path)] = ""

\* strArr2[:len(strArr2)-1]
Front(path) == SubSeq(path, 1, Len(path) - 1)

\* strings.Split(reqPath[:lastIndex], "/"), lastIndex being 0 without a "/".
ParentArr(path) == IF Len(path) = 1 THEN <<"">> ELSE Front(path)

Last(path) == path[Len(path)]

\* The requests the clients send: path, whether the URL path carries the
\* handler's prefix "/" (the path of an absolute-form target without one is
\* empty and does not), and whether the User-Agent contains "Darwin".
Requests ==
    {[path |-> q, rooted |-> TRUE, darwin |-> FALSE] : q \in Paths}
    \cup {[path |-> <<"a", "._f">>, rooted |-> TRUE, darwin |-> TRUE],
          [path |-> <<"">>, rooted |-> FALSE, darwin |-> FALSE]}

\* The id of the file the drive may hold before the first request.
OldFileId == "idf"

\* The children of folder id that the backend lists: the files of the drive.
ListingOf(id) ==
    SelectSeq(<<OldFileId>> \o FileIds,
              LAMBDA f : \E o \in remote : o.id = f /\ o.parent = id /\ o.avail)

\* WalkFolder's side effect on the cache: it may store the listing of the
\* folder it resolved under the folder's id.
WalkFolderCaches(c, id, stores) ==
    IF stores THEN CacheSet(c, Key("", <<id>>), ListingOf(id)) ELSE c

\* ServeHTTP writes the status the handler returned; the request is over.
Respond(r, status) == [r EXCEPT !.pc = "done", !.status = status]

(* ------------------------- Handler.handlePut -------------------------- *)

\* A PUT request arrives and ServeHTTP dispatches it to handlePut on a
\* goroutine of its own. Requests are served one after the other.
PutBegin(p) ==
    /\ rq[p].pc = "idle"
    /\ \A q \in Procs : rq[q].pc \in {"idle", "done"}
    /\ calc.phase = "idle"
    /\ \E req \in Requests, n \in Lengths, b \in Bodies :
          Upd(p, [IdleReq EXCEPT !.pc = "put_check", !.no = nreq + 1,
                     !.path = req.path, !.rooted = req.rooted,
                     !.darwin = req.darwin, !.len = n,
                     !.body = IF SzLT(Zero, n) THEN b ELSE ""])
    /\ nreq' = nreq + 1
    /\ UNCHANGED <<goos, cfg, now, cache, remote, calc, ls, dav, net>>

\* stripPrefix, the IN_PROGRESS check and the Darwin "._" filter.
PutCheck(p) ==
    /\ rq[p].pc = "put_check"
    /\ LET r == rq[p] IN
         IF CacheHas(cache, Key("IN_PROGRESS", r.path))
         THEN Upd(p, Respond(r, 201))
         ELSE IF ~r.rooted
         THEN Upd(p, Respond(r, 404))
         ELSE IF r.darwin /\ HasDotUnderscore(r.path)
         THEN Upd(p, Respond(r, 200))
         ELSE Upd(p, [r EXCEPT !.pc = "put_resolve"])
    /\ UNCHANGED <<goos, cfg, now, cache, remote, nreq, calc, ls, dav, net>>

\* The parent folder: taken from the cache (and looked up by id), or walked
\* from the root and cached. detail is whether GetFileDetail answers, walk
\* what WalkFolder returns, stores whether it caches the folder's listing.
PutResolve(p) ==
    /\ rq[p].pc = "put_resolve"
    /\ LET r == rq[p]
           name == Last(r.path)
           hit == Key("FID_", Front(r.path))
           strArr == ParentArr(r.path)
       IN
         IF r.path # <<"">> /\ ~HasSuffixSlash(r.path)
         THEN IF CacheHas(cache, hit)
              THEN \E detail \in BOOLEAN :
                     /\ Upd(p, [r EXCEPT !.pc = "put_mark", !.fileName = name,
                                  !.parentFileId = IF detail THEN cache[hit] ELSE ""])
                     /\ UNCHANGED cache
              ELSE \E walk \in {"err", "other", "found"}, stores \in BOOLEAN :
                     IF walk = "found" /\ strArr \in DOMAIN Folders
                     THEN LET id == Folders[strArr] IN
                          /\ Upd(p, [r EXCEPT !.pc = "put_mark", !.fileName = name,
                                       !.parentFileId = id])
                          /\ cache' = WalkFolderCaches(
                                        CacheSet(CacheSet(cache, Key("FID_", strArr), id),
                                                 Key("FI_", <<id>>), [FileId |-> id, Name |-> Last(strArr)]),
                                        id, stores)
                     ELSE /\ Upd(p, Respond(r, 409))
                          /\ UNCHANGED cache
         ELSE /\ Upd(p, [r EXCEPT !.pc = "put_mark", !.fileName = name,
                           !.parentFileId = ""])
              /\ UNCHANGED cache
    /\ UNCHANGED <<goos, cfg, now, remote, nreq, calc, ls, dav, net>>

\* The deferred cleanup is registered, the path is marked IN_PROGRESS and
\* ContentHandle is called.
PutMark(p) ==
    /\ rq[p].pc = "put_mark"
    /\ cache' = CacheSet(cache, Key("IN_PROGRESS", rq[p].path), rq[p].fileName)
    /\ Upd(p, [rq[p] EXCEPT !.pc = "ch_start", !.marked = TRUE])
    /\ UNCHANGED <<goos, cfg, now, remote, nreq, calc, ls, dav, net>>

\* ContentHandle has returned r.ret: the mark is removed, FID_<path> is set
\* on a non-empty id and 201 is answered, 400 on the empty one.
PutFinish(p) ==
    /\ rq[p].pc = "put_finish"
    /\ LET r == rq[p]
           c1 == CacheDelete(cache, Key("IN_PROGRESS", r.path))
       IN
         IF r.ret # ""
         THEN /\ cache' = CacheSet(c1, Key("FID_", r.path), r.ret)
              /\ Upd(p, [Respond(r, 201) EXCEPT !.fidSet = TRUE])
         ELSE /\ cache' = c1
              /\ Upd(p, Respond(r, 400))
    /\ UNCHANGED <<goos, cfg, now, remote, nreq, calc, ls, dav, net>>

\* A panic of ContentHandle unwinds handlePut: its deferred function removes
\* the IN_PROGRESS mark, and net/http drops the connection without a status.
PutPanic(p) ==
    /\ rq[p].pc = "put_panic"
    /\ cache' = CacheDelete(cache, Key("IN_PROGRESS", rq[p].path))
    /\ Upd(p, Respond(rq[p], 0))
    /\ UNCHANGED <<goos, cfg, now, remote, nreq, calc, ls, dav, net>>

(* ---------------------------- ContentHandle --------------------------- *)

\* for i := 0; i < 10; i++ of the renewal loop
RenewTries == 10

\* return id from ContentHandle once the spool file exists: the deferred
\* functions run first.
Return(r, id) == [r EXCEPT !.ret = id, !.pc = "ch_defer_remove"]

\* return "" after the failure named what.
Fail(r, what) == Return([r EXCEPT !.failures = @ \cup {what}], "")

\* A run-time panic (an index out of range): the deferred functions run,
\* then the panic unwinds into handlePut.
Panic(r) == [r EXCEPT !.panicked = TRUE, !.pc = "ch_defer_remove"]

\* if va, ok := cache.GoCache.Get(parentId); ok { l.Items = append(l.Items,
\* GetFileDetail(id)); cache.GoCache.SetDefault(parentId, l) }
AppendListing(c, parentId, item) ==
    IF CacheHas(c, Key("", <<parentId>>))
    THEN CacheSet(c, Key("", <<parentId>>), Append(c[Key("", <<parentId>>)], item))
    ELSE c

\* The object the backend holds after a create call of request r.
NewObject(r, id, args, avail) ==
    [id |-> id, parent |-> r.parentId, name |-> r.fileName,
     hash |-> args.hash, size |-> args.size, avail |-> avail, type |-> "file"]

\* parentId defaults to "root"; a positive length fixes the part count, any
\* other length takes the empty-file path: one create call with sha1_0.
CH_Start(p) ==
    /\ rq[p].pc = "ch_start"
    /\ LET r == [rq[p] EXCEPT !.parentId = IF rq[p].parentFileId = "" THEN "root"
                                           ELSE rq[p].parentFileId]
           id == FileIds[r.no]
       IN
         IF SzLT(Zero, r.len)
         THEN /\ Upd(p, [r EXCEPT !.count = ChunkCount(r.len), !.pc = "ch_spool_create"])
              /\ UNCHANGED <<cache, remote>>
         ELSE \E ok \in BOOLEAN, detail \in BOOLEAN :
                IF ok
                THEN /\ remote' = remote \cup {NewObject(r, id, ZeroCreateArgs, TRUE)}
                     /\ cache' = AppendListing(cache, r.parentId, IF detail THEN id ELSE "")
                     /\ Upd(p, [r EXCEPT !.creates = Append(@, ZeroCreateArgs),
                                  !.created = id, !.ret = id, !.pc = "put_finish",
                                  !.listed = CacheHas(cache, Key("", <<r.parentId>>))])
                ELSE /\ Upd(p, [r EXCEPT !.creates = Append(@, ZeroCreateArgs),
                                  !.failures = @ \cup {"zero_create"},
                                  !.ret = "", !.pc = "put_finish"])
                     /\ UNCHANGED <<cache, remote>>
    /\ UNCHANGED <<goos, cfg, now, nreq, calc, ls, dav, net>>

\* os.Create(uid) and the two defers: Close, then Remove.
CH_SpoolCreate(p) ==
    /\ rq[p].pc = "ch_spool_create"
    /\ \E ok \in BOOLEAN :
         IF ok
         THEN Upd(p, [rq[p] EXCEPT !.fileExists = TRUE, !.fileOpen = TRUE,
                        !.deferred = TRUE, !.spooled = TRUE, !.pc = "ch_copy"])
         ELSE Upd(p, [rq[p] EXCEPT !.failures = @ \cup {"spool_create"},
                        !.ret = "", !.pc = "put_finish"])
    /\ UNCHANGED <<goos, cfg, now, cache, remote, nreq, calc, ls, dav, net>>

\* The branch taken once the body is spooled: the pre-hash probe for an
\* eligible length, the plain create call for any other.
AfterCopy(n) == IF PreHashEligible(n) THEN "ch_probe" ELSE "ch_create_plain"

\* io.Copy(intermediateFile, r.Body), then the branch on the length.
CH_Copy(p) ==
    /\ rq[p].pc = "ch_copy"
    /\ \E ok \in BOOLEAN :
         IF ok
         THEN Upd(p, [rq[p] EXCEPT !.pc = AfterCopy(rq[p].len)])
         ELSE Upd(p, Fail(rq[p], "copy"))
    /\ UNCHANGED <<goos, cfg, now, cache, remote, nreq, calc, ls, dav, net>>

\* The drive holds a complete file of this content.
Held(hash, size) == \E o \in remote : o.avail /\ o.hash = hash /\ o.size = size

\* What the backend can answer to the pre-hash request: 409 (the content
\* may be known), 201 (it is not) or nothing; content the drive holds is
\* never reported unknown.
ProbeCodes(r) ==
    IF Held(FullSha1(r.body), r.len) THEN {409, -1} ELSE {409, 201, -1}

\* A probe that takes every answered request for a 409.
CH_Probe_AnyAnswer(p) ==
    /\ rq[p].pc = "ch_probe"
    /\ \E ok \in BOOLEAN, code \in {409, 201, -1} :
         IF ok
         THEN Upd(p, [rq[p] EXCEPT !.probed = TRUE, !.probes = @ + 1, !.code = code,
                        !.pc = IF code # -1 THEN "ch_proof" ELSE "ch_hash"])
         ELSE Upd(p, Fail([rq[p] EXCEPT !.probed = TRUE], "read"))
    /\ UNCHANGED <<goos, cfg, now, cache, remote, nreq, calc, ls, dav, net>>

\* The first KiB is read and hashed, and the pre-hash request is posted;
\* code is the status PostExpectStatus returns (-1: no answer).
CH_Probe(p) ==
    /\ rq[p].pc = "ch_probe"
    /\ \E ok \in BOOLEAN, code \in ProbeCodes(rq[p]) :
         IF ok
         THEN Upd(p, [rq[p] EXCEPT !.probed = TRUE, !.probes = @ + 1, !.code = code,
                        !.pc = IF code = 409 THEN "ch_proof" ELSE "ch_hash"])
         ELSE Upd(p, Fail([rq[p] EXCEPT !.probed = TRUE], "read"))
    /\ UNCHANGED <<goos, cfg, now, cache, remote, nreq, calc, ls, dav, net>>

\* code == 409: the offset from the token's MD5, the window of up to 8
\* bytes, the proof, and flashUpload = true.
CH_Proof(p) ==
    /\ rq[p].pc = "ch_proof"
    /\ \E f \in HashWords, seek \in BOOLEAN, read \in BOOLEAN :
         LET r == rq[p]
             offset == SzMod(f, r.len)
             end == ProofEnd(offset, r.len)
         IN
           IF ~seek THEN Upd(p, Fail([r EXCEPT !.f = f, !.offset = offset], "seek"))
           ELSE IF ~read THEN Upd(p, Fail([r EXCEPT !.f = f, !.offset = offset], "read"))
           ELSE Upd(p, [r EXCEPT !.f = f, !.offset = offset,
                          !.proof = GetProof(r.body, offset, end),
                          !.flashUpload = TRUE, !.pc = "ch_hash"])
    /\ UNCHANGED <<goos, cfg, now, cache, remote, nreq, calc, ls, dav, net>>

\* Seek(0, 0) and the SHA-1 of the whole spool file.
CH_Hash(p) ==
    /\ rq[p].pc = "ch_hash"
    /\ \E seek \in BOOLEAN, copy \in BOOLEAN :
         IF ~seek THEN Upd(p, Fail(rq[p], "seek"))
         ELSE IF ~copy THEN Upd(p, Fail(rq[p], "sha1"))
         ELSE Upd(p, [rq[p] EXCEPT !.sha = FullSha1(rq[p].body), !.pc = "ch_create_hashed"])
    /\ UNCHANGED <<goos, cfg, now, cache, remote, nreq, calc, ls, dav, net>>

\* What UpdateFileFile can answer to a create call with these arguments: no
\* upload (an error), one upload URL per part, or, for a call that carries
\* the rapid flag, a confirmed rapid upload; a call that carries the rapid
\* flag, the hash and a proof of content the drive holds is confirmed, if it
\* is answered.
CreateAnswers(args) ==
    IF args.flash /\ args.proof # NoProof /\ Held(args.hash, args.size)
    THEN {"fail", "rapid"}
    ELSE {"fail", "urls"} \cup (IF args.flash THEN {"rapid"} ELSE {})

\* uploadUrl, uploadId, uploadFileId, flashUpload = UpdateFileFile(...), and
\* the return of a confirmed rapid upload: the listing is extended and the
\* id returned, UploadFileComplete is not called.
AfterCreate(p, r0, args, answer, detail) ==
    LET id == FileIds[r0.no]
        r == [r0 EXCEPT !.creates = Append(@, args)]
    IN
      CASE answer = "fail" ->
             /\ Upd(p, [r EXCEPT !.uploadUrl = NoUrls, !.uploadFileId = "",
                          !.flashUpload = FALSE, !.pc = "ch_check_urls"])
             /\ UNCHANGED <<cache, remote>>
        [] answer = "urls" ->
             /\ Upd(p, [r EXCEPT !.uploadUrl = [n |-> args.parts, exp |-> now],
                          !.uploadFileId = id, !.created = id,
                          !.flashUpload = FALSE, !.pc = "ch_check_urls"])
             /\ remote' = remote \cup {NewObject(r, id, args, FALSE)}
             /\ UNCHANGED cache
        [] OTHER ->
             /\ Upd(p, Return([r EXCEPT !.uploadUrl = NoUrls, !.uploadFileId = id,
                                 !.created = id, !.flashUpload = TRUE,
                                 !.listed = CacheHas(cache, Key("", <<r.parentId>>))], id))
             /\ remote' = remote \cup {NewObject(r, id, args, TRUE)}
             /\ cache' = AppendListing(cache, r.parentId, IF detail THEN id ELSE "")

\* The create call of the pre-hash branch: the full hash, the proof and
\* flashUpload are passed.
CH_CreateHashed(p) ==
    /\ rq[p].pc = "ch_create_hashed"
    /\ LET r == rq[p]
           args == CreateArgs(r.len, r.count, TRUE, r.sha, r.proof, r.flashUpload)
       IN \E answer \in CreateAnswers(args), detail \in BOOLEAN :
            AfterCreate(p, r, args, answer, detail)
    /\ UNCHANGED <<goos, cfg, now, nreq, calc, ls, dav, net>>

\* The create call of the other branch: no hash, no proof, no rapid upload.
CH_CreatePlain(p) ==
    /\ rq[p].pc = "ch_create_plain"
    /\ LET r == rq[p]
           args == CreateArgs(r.len, r.count, FALSE, r.sha, r.proof, r.flashUpload)
       IN \E answer \in CreateAnswers(args), detail \in BOOLEAN :
            AfterCreate(p, r, args, answer, detail)
    /\ UNCHANGED <<goos, cfg, now, nreq, calc, ls, dav, net>>

\* len(uploadUrl) == 0, Stat, Seek(0, 0), and the head of the part loop.
CH_CheckUrls(p) ==
    /\ rq[p].pc = "ch_check_urls"
    /\ \E stat \in BOOLEAN, seek \in BOOLEAN :
         LET r == rq[p] IN
           IF r.uploadUrl.n = 0 THEN Upd(p, Fail(r, "empty_urls"))
           ELSE IF ~stat THEN Upd(p, Fail(r, "stat"))
           ELSE IF ~seek THEN Upd(p, Fail(r, "seek"))
           ELSE Upd(p, [r EXCEPT !.i = 0, !.pc = "ch_read"])
    /\ UNCHANGED <<goos, cfg, now, cache, remote, nreq, calc, ls, dav, net>>

\* Part i: dataByte is sized and filled from the spool file.
CH_Read(p) ==
    /\ rq[p].pc = "ch_read"
    /\ \E ok \in BOOLEAN :
         LET r == rq[p] IN
           IF ok
           THEN Upd(p, [r EXCEPT !.dataLen = ChunkLen(r.len, r.count, r.i),
                          !.pc = "ch_expiry"])
           ELSE Upd(p, Fail(r, "read"))
    /\ Elapse
    /\ UNCHANGED <<goos, cfg, cache, remote, nreq, calc, ls, dav, net>>

\* uploadUrl[i].Str is parsed for x-oss-expires and compared with the clock;
\* indexing a list of at most i entries panics.
CH_Expiry(p) ==
    /\ rq[p].pc = "ch_expiry"
    /\ LET r == rq[p] IN
         IF r.i >= r.uploadUrl.n THEN Upd(p, Panic(r))
         ELSE IF now > r.uploadUrl.exp
         THEN Upd(p, [r EXCEPT !.tries = 0, !.renewCalls = 0, !.pc = "ch_renew"])
         ELSE Upd(p, [r EXCEPT !.pc = "ch_upload"])
    /\ UNCHANGED <<goos, cfg, now, cache, remote, nreq, calc, ls, dav, net>>

\* One pass of the renewal loop: GetUploadUrls answers k URLs; a full set
\* ends the loop, anything else sleeps and counts one try.
CH_Renew(p) ==
    /\ rq[p].pc = "ch_renew"
    /\ rq[p].tries < RenewTries
    /\ \E k \in 0..rq[p].count :
         LET r == [rq[p] EXCEPT !.uploadUrl = [n |-> k, exp |-> now],
                              !.renewed = TRUE, !.renewCalls = @ + 1] IN
           IF k = r.count THEN Upd(p, [r EXCEPT !.pc = "ch_renewed"])
           ELSE Upd(p, [r EXCEPT !.tries = @ + 1,
                          !.pc = IF r.tries + 1 < RenewTries THEN "ch_renew" ELSE "ch_renewed",
                          !.exhausted = @ \/ (r.tries + 1 = RenewTries)])
    /\ Elapse
    /\ UNCHANGED <<goos, cfg, cache, remote, nreq, calc, ls, dav, net>>

\* After the loop: an empty list cancels the upload, any other goes on.
CH_Renewed(p) ==
    /\ rq[p].pc = "ch_renewed"
    /\ LET r == rq[p] IN
         IF r.uploadUrl.n = 0 THEN Upd(p, Fail(r, "renew"))
         ELSE Upd(p, [r EXCEPT !.pc = "ch_upload"])
    /\ UNCHANGED <<goos, cfg, now, cache, remote, nreq, calc, ls, dav, net>>

\* A part loop that does not look at what UploadFile returns.
CH_Upload_Unchecked(p) ==
    /\ rq[p].pc = "ch_upload"
    /\ \E ok \in BOOLEAN :
         LET r == rq[p] IN
           IF r.i >= r.uploadUrl.n THEN Upd(p, Panic(r))
           ELSE Upd(p, [r EXCEPT !.sent = IF ok THEN Append(@, r.dataLen) ELSE @,
                          !.failures = IF ok THEN @ ELSE @ \cup {"chunk_upload"},
                          !.i = @ + 1,
                          !.pc = IF r.i + 1 < r.count THEN "ch_read" ELSE "ch_complete"])
    /\ Elapse
    /\ UNCHANGED <<goos, cfg, cache, remote, nreq, calc, ls, dav, net>>

\* UploadFile(uploadUrl[i].Str, token, dataByte), and i++.
CH_Upload(p) ==
    /\ rq[p].pc = "ch_upload"
    /\ \E ok \in BOOLEAN :
         LET r == rq[p] IN
           IF r.i >= r.uploadUrl.n THEN Upd(p, Panic(r))
           ELSE IF ~ok THEN Upd(p, Fail(r, "chunk_upload"))
           ELSE Upd(p, [r EXCEPT !.sent = Append(@, r.dataLen), !.i = @ + 1,
                          !.pc = IF r.i + 1 < r.count THEN "ch_read" ELSE "ch_complete"])
    /\ Elapse
    /\ UNCHANGED <<goos, cfg, cache, remote, nreq, calc, ls, dav, net>>

\* UploadFileComplete, whose outcome is not looked at; the listing of the
\* parent is extended and the id returned.
CH_Complete(p) ==
    /\ rq[p].pc = "ch_complete"
    /\ \E ok \in BOOLEAN, detail \in BOOLEAN :
         LET r == rq[p] IN
           /\ remote' = IF ok
                        THEN {IF o.id = r.uploadFileId THEN [o EXCEPT !.avail = TRUE] ELSE o
                                : o \in remote}
                        ELSE remote
           /\ cache' = AppendListing(cache, r.parentId, IF detail THEN r.uploadFileId ELSE "")
           /\ Upd(p, Return([r EXCEPT !.completes = @ + 1, !.completeOk = ok,
                               !.listed = CacheHas(cache, Key("", <<r.parentId>>))],
                            r.uploadFileId))
    /\ UNCHANGED <<goos, cfg, now, nreq, calc, ls, dav, net>>

\* The deferred os.Remove(name) runs first, while the file is still open:
\* Windows refuses to delete an open file, and the error is only printed.
CH_DeferRemove(p) ==
    /\ rq[p].pc = "ch_defer_remove"
    /\ Upd(p, [rq[p] EXCEPT !.fileExists = (goos = "windows" /\ rq[p].fileOpen),
                 !.pc = "ch_defer_close"])
    /\ UNCHANGED <<goos, cfg, now, cache, remote, nreq, calc, ls, dav, net>>

\* The deferred create.Close() runs last; ContentHandle is left.
CH_DeferClose(p) ==
    /\ rq[p].pc = "ch_defer_close"
    /\ Upd(p, [rq[p] EXCEPT !.fileOpen = FALSE,
                 !.pc = IF rq[p].panicked THEN "put_panic" ELSE "put_finish"])
    /\ UNCHANGED <<goos, cfg, now, cache, remote, nreq, calc, ls, dav, net>>

(* -------------------------- sizing harness ---------------------------- *)

\* The arithmetic of ContentHandle evaluated on its own, for the lengths
\* whose part loop is too long to run in the request model: every byte
\* count m MiB + b with m up to MaxSizeMiB or next to the 25 GiB limit.
SizeInputs ==
    {Sz(m, b) : m \in (0..MaxSizeMiB) \cup {1024 * 25 - 1, 1024 * 25, 1024 * 25 + 1},
                b \in {0, 1, 1024 * 150, 1024 * 150 + 1, MiB - 1}} \ {Zero}

\* count, the branch after spooling and the create call's arguments for a
\* body of n bytes; flash is the rapid flag the pre-hash branch ends with.
SizePick ==
    /\ calc.phase = "idle"
    /\ nreq = 0
    /\ \E n \in SizeInputs, flash \in BOOLEAN :
         calc' = [IdleCalc EXCEPT
                    !.phase = "loop", !.n = n, !.count = ChunkCount(n),
                    !.branch = AfterCopy(n),
                    !.args = CreateArgs(n, ChunkCount(n), AfterCopy(n) = "ch_probe",
                                        FullSha1("x"),
                                        IF flash THEN GetProof("x", Zero, ProofEnd(Zero, n))
                                        ELSE NoProof,
                                        flash)]
    /\ UNCHANGED <<goos, cfg, now, cache, remote, nreq, rq, ls, dav, net>>

\* The values of the token's hash word the harness draws, all below 2^30.
ProofWords == {0, 1, 7, 1024 * 150, 1024 * 150 + 1, 1024 * 150 + 8, MiB, MiB * 1024 - 1}

\* The code == 409 branch for an eligible body of n bytes and the hash
\* word f: the offset and the window the proof is taken from.
SizeProof ==
    /\ calc.phase = "idle"
    /\ nreq = 0
    /\ \E n \in {x \in SizeInputs : PreHashEligible(x)}, f \in ProofWords :
         LET offset == SzMod(f, n) IN
           calc' = [IdleCalc EXCEPT
                      !.phase = "proof", !.n = n, !.count = ChunkCount(n),
                      !.branch = AfterCopy(n), !.f = f, !.offset = offset,
                      !.proof = GetProof("x", offset, ProofEnd(offset, n))]
    /\ UNCHANGED <<goos, cfg, now, cache, remote, nreq, rq, ls, dav, net>>

\* One pass of for i := 0; i < int(count); i++: the size of dataByte. Of
\* the sizes only the first, the previous and the current one are kept.
SizeStep ==
    /\ calc.phase = "loop"
    /\ LET len == ChunkLen(calc.n, calc.count, calc.i)
           kept == IF Len(calc.lens) < 3 THEN calc.lens
                   ELSE <<calc.lens[1], calc.lens[3]>>
       IN calc' = [calc EXCEPT !.i = @ + 1, !.lens = Append(kept, len),
                                !.sum = SzAdd(@, len),
                                !.phase = IF calc.i + 1 < calc.count THEN "loop" ELSE "done"]
    /\ UNCHANGED <<goos, cfg, now, cache, remote, nreq, rq, ls, dav, net>>

(* ----------------------------- package net ---------------------------- *)

\* for i := 0; i < 5; i++
NetTries == 5

\* The status codes the backend answers with.
NetStatuses == {200, 201, 409, 500}

\* PostExpectStatus or Put is called; http.NewRequest may refuse the URL,
\* and the call returns nil, -1 at once.
NetCall ==
    /\ net.pc = "idle"
    /\ \E fn \in {"post", "put"}, ok \in BOOLEAN :
         net' = IF ok THEN [IdleNet EXCEPT !.pc = "loop", !.fn = fn]
                ELSE [IdleNet EXCEPT !.pc = "done", !.fn = fn, !.ret = -1]
    /\ UNCHANGED <<goos, cfg, now, cache, remote, nreq, rq, calc, ls, dav>>

\* net after an attempt that is to be repeated: the loop goes on, or ends
\* with nil, -1 after the last pass.
NetRetry(o) ==
    LET tried == Append(net.tried, o) IN
      IF Len(tried) < NetTries THEN [net EXCEPT !.tried = tried]
      ELSE [net EXCEPT !.tried = tried, !.pc = "done", !.ret = -1]

\* A PostExpectStatus that repeats the request after a status that is not
\* 2xx as well.
PostAttempt_RetryStatus ==
    /\ net.pc = "loop"
    /\ net.fn = "post"
    /\ \E o \in {0} \cup NetStatuses, read \in BOOLEAN :
         net' = IF o = 0 \/ o \notin 200..299 THEN NetRetry(o)
                ELSE [net EXCEPT !.tried = Append(@, o), !.pc = "done", !.read = read,
                                 !.ret = IF read THEN o ELSE -1]
    /\ UNCHANGED <<goos, cfg, now, cache, remote, nreq, rq, calc, ls, dav>>

\* One pass of the loop of PostExpectStatus: an error of client.Do sleeps
\* and repeats; any response is read and returned with its status code.
PostAttempt ==
    /\ net.pc = "loop"
    /\ net.fn = "post"
    /\ \E o \in {0} \cup NetStatuses, read \in BOOLEAN :
         net' = IF o = 0 THEN NetRetry(o)
                ELSE [net EXCEPT !.tried = Append(@, o), !.pc = "done", !.read = read,
                                 !.ret = IF read THEN o ELSE -1]
    /\ UNCHANGED <<goos, cfg, now, cache, remote, nreq, rq, calc, ls, dav>>

\* One pass of the loop of Put: an error or a status other than 200 sleeps
\* and repeats; a 200 is read and 0 returned.
PutAttempt ==
    /\ net.pc = "loop"
    /\ net.fn = "put"
    /\ \E o \in {0} \cup NetStatuses, read \in BOOLEAN :
         net' = IF o = 0 \/ o # 200 THEN NetRetry(o)
                ELSE [net EXCEPT !.tried = Append(@, o), !.pc = "done", !.read = read,
                                 !.ret = IF read THEN 0 ELSE -1]
    /\ UNCHANGED <<goos, cfg, now, cache, remote, nreq, rq, calc, ls, dav>>

NextNet == NetCall \/ PostAttempt \/ PutAttempt

SpecNet == Init /\ [][NextNet]_vars

(* ------------------------- the lock system ---------------------------- *)

\* The name the lock system files a path under: "" and "/" are the root.
Clean(path) == IF path = <<"">> THEN <<>> ELSE path

IsPrefix(a, b) == Len(a) <= Len(b) /\ SubSeq(b, 1, Len(a)) = a

\* A lock: its token, its root, whether its depth is zero, its duration
\* in seconds (-1: infinite) and whether a request holds it.
Lock(token, root, zeroDepth, dur) ==
    [token |-> token, root |-> Clean(root), zeroDepth |-> zeroDepth,
     dur |-> dur, held |-> FALSE]

\* Whether lock l covers the resource name.
Covers(l, name) ==
    \/ l.root = Clean(name)
    \/ ~l.zeroDepth /\ IsPrefix(l.root, Clean(name))

\* A lock may be created unless the resource is locked, a lock of infinite
\* depth is asked for above a locked one, or a lock of infinite depth
\* covers the resource from above.
CanCreate(L, name, zeroDepth) ==
    /\ ~\E l \in L : l.root = Clean(name)
    /\ zeroDepth \/ ~\E l \in L : IsPrefix(Clean(name), l.root)
    /\ ~\E l \in L : l.root # Clean(name) /\ Covers(l, name)

\* LockSystem.Create: the table and the new token, 0 with ErrLocked.
LsCreate(s, name, zeroDepth, dur) ==
    IF CanCreate(s.locks, name, zeroDepth)
    THEN [ls |-> [gen |-> s.gen + 1,
                  locks |-> s.locks \cup {Lock(s.gen + 1, name, zeroDepth, dur)}],
          token |-> s.gen + 1]
    ELSE [ls |-> s, token |-> 0]

\* LockSystem.Unlock: "" on success, else the error.
LsUnlockErr(s, token) ==
    IF ~\E l \in s.locks : l.token = token THEN "ErrNoSuchLock"
    ELSE IF \E l \in s.locks : l.token = token /\ l.held THEN "ErrLocked"
    ELSE ""

LsUnlock(s, token) ==
    IF LsUnlockErr(s, token) = "" THEN [s EXCEPT !.locks = {l \in @ : l.token # token}]
    ELSE s

\* LockSystem.Refresh: the duration of the lock is replaced.
LsRefresh(s, token, dur) ==
    IF LsUnlockErr(s, token) = ""
    THEN [s EXCEPT !.locks = {IF l.token = token THEN [l EXCEPT !.dur = dur] ELSE l : l \in @}]
    ELSE s

\* The lock the conditions of one If list select for a resource: that of
\* the first condition whose token names a lock not held that covers it;
\* 0 if there is none.
RECURSIVE Lookup(_, _, _)
Lookup(L, name, conds) ==
    IF conds = <<>> THEN 0
    ELSE IF \E l \in L : l.token = Head(conds) /\ ~l.held /\ Covers(l, name)
    THEN Head(conds)
    ELSE Lookup(L, name, Tail(conds))

\* LockSystem.Confirm(now, name0, name1, conditions...): whether every
\* name given (not "") is covered, and the tokens of the locks then held.
ConfirmOk(L, name0, name1, conds) ==
    /\ name0 # <<"">> => Lookup(L, name0, conds) # 0
    /\ name1 # <<"">> => Lookup(L, name1, conds) # 0

ConfirmHolds(L, name0, name1, conds) ==
    (IF name0 # <<"">> THEN {Lookup(L, name0, conds)} ELSE {})
    \cup (IF name1 # <<"">> THEN {Lookup(L, name1, conds)} ELSE {})

\* The locks with tokens T held, or let go.
Hold(s, T, h) ==
    [s EXCEPT !.locks = {IF l.token \in T THEN [l EXCEPT !.held = h] ELSE l : l \in @}]

(* --------------------- the dispatcher's other handlers ---------------- *)

\* The requests served one after the other in a behaviour of the dispatcher.
MaxReqs == 2

\* The empty model.ListModel.
NoFile == [FileId |-> "", Name |-> "", ParentFileId |-> ""]

\* The file the drive holds before the first request: /f, empty.
OldFile ==
    [id |-> OldFileId, parent |-> "root", name |-> "f", hash |-> Sha1Empty,
     size |-> Zero, avail |-> TRUE, type |-> "file"]

\* What the backend knows of id: the root, a folder, a file, or nothing.
FileDetail(id) ==
    IF id = "root" THEN [FileId |-> "root", Name |-> "", ParentFileId |-> ""]
    ELSE IF \E q \in DOMAIN Folders : Folders[q] = id
    THEN LET q == CHOOSE q \in DOMAIN Folders : Folders[q] = id
         IN [FileId |-> id, Name |-> Last(q), ParentFileId |-> Folders[ParentArr(q)]]
    ELSE IF \E o \in remote : o.id = id
    THEN LET o == CHOOSE o \in remote : o.id = id
         IN [FileId |-> id, Name |-> o.name, ParentFileId |-> o.parent]
    ELSE NoFile

\* aliyun.GetFileDetail: the empty model when the call fails.
GetFileDetail(id, ok) == IF ok THEN FileDetail(id) ELSE NoFile

\* aliyun.Walk from the root: the folder or a file of that path; NoFile
\* stands for the error it returns when there is none or a call fails.
Walk(strArr) ==
    {NoFile}
    \cup (IF strArr \in DOMAIN Folders THEN {FileDetail(Folders[strArr])} ELSE {})
    \cup (IF ParentArr(strArr) \in DOMAIN Folders
          THEN {FileDetail(o.id) : o \in {x \in remote : /\ x.parent = Folders[ParentArr(strArr)]
                                                         /\ x.name = Last(strArr)
                                                         /\ x.avail}}
          ELSE {})

\* getParentFileId: the id cached under "FID_" + the joined segments.
getParentFileId(strArr) ==
    IF CacheHas(cache, Key("FID_", strArr)) THEN cache[Key("FID_", strArr)] ELSE "root"

\* getFileId: the id cached for the segments without the last, or for the
\* only one.
getFileId(strArr) ==
    getParentFileId(IF Len(strArr) > 1 THEN Front(strArr) ELSE strArr)

\* len of a segment, and of strings.Join(path, "/").
SegLen(s) == CASE s = "" -> 0 [] s = "cc" -> 2 [] s = "._f" -> 3 [] OTHER -> 1

RECURSIVE StrLen(_)
StrLen(path) ==
    IF Len(path) = 0 THEN 0
    ELSE IF Len(path) = 1 THEN SegLen(path[1])
    ELSE StrLen(Front(path)) + 1 + SegLen(Last(path))

\* strings.LastIndex(s, "/")
LastIndex(path) == IF Len(path) = 1 THEN -1 ELSE StrLen(Front(path))

\* The If headers of the modelled requests: none, one that does not parse,
\* and lists of conditions. A condition is a lock token (0: an entity tag);
\* the resource tag of a list is absent (""), a URL of this host under the
\* handler's prefix ("here", naming path), a URL of this host whose path
\* lacks the prefix ("bare"), or a URL of another host ("other"). Token 1
\* is the first the lock system hands out, token 9 one it never does.
IfList(tag, path, conds) == [tag |-> tag, path |-> path, conds |-> conds]

IfHeaders ==
    {NoIf, [hdr |-> "bad", lists |-> <<>>]}
    \cup {[hdr |-> "ok", lists |-> ll] :
            ll \in {<<IfList("", <<"">>, <<1>>)>>,
                    <<IfList("", <<"">>, <<9>>)>>,
                    <<IfList("", <<"">>, <<0>>)>>,
                    <<IfList("", <<"">>, <<9, 1>>)>>,
                    <<IfList("", <<"">>, <<9>>), IfList("", <<"">>, <<1>>)>>,
                    <<IfList("other", <<"f">>, <<1>>)>>,
                    <<IfList("other", <<"f">>, <<1>>), IfList("", <<"">>, <<1>>)>>,
                    <<IfList("here", <<"f">>, <<1>>)>>,
                    <<IfList("bare", <<"">>, <<1>>)>>}}

\* parseIfHeader: ok only for a header of one or more well-formed lists.
ParseOk(ih) == ih.hdr = "ok"

\* Source and Destination of the modelled COPY and MOVE requests: a rename
\* in the root and in a folder, the same name under another parent (from
\* and to the root, between folders whose paths differ in length, between
\* folders whose paths do not), and another name under another parent.
CopyMovePairs ==
    {<<<<"f">>, <<"g">>>>, <<<<"a", "f">>, <<"a", "g">>>>,
     <<<<"f">>, <<"a", "f">>>>, <<<<"a", "f">>, <<"f">>>>,
     <<<<"a", "f">>, <<"cc", "f">>>>, <<<<"a", "f">>, <<"b", "f">>>>,
     <<<<"f">>, <<"a", "g">>>>}

\* The requests to the handlers other than handlePut. rooted: the URL path
\* carries the handler's prefix. A LOCK request has a body (lockinfo) or
\* none, a Depth and a Timeout header; an UNLOCK request a Lock-Token.
DavRequest(method, src, dst, ifh) ==
    [method |-> method, src |-> src, rooted |-> TRUE, dst |-> dst, ifh |-> ifh,
     body |-> "", clen |-> 0, depth |-> "", dur |-> -1, token |-> 0, auth |-> "ok"]

infiniteDepth == -1

invalidDepth == -2

\* parseDepth
parseDepth(x) ==
    CASE x = "0" -> 0
      [] x = "1" -> 1
      [] x = "infinity" -> infiniteDepth
      [] OTHER -> invalidDepth

\* The depth a handler works with: infiniteDepth without a Depth header.
DepthOf(hdr) == IF hdr = "" THEN infiniteDepth ELSE parseDepth(hdr)

\* The Depth headers of the modelled requests: none, the three values of
\* RFC 4918 and one that is none of them.
Depths == {"", "0", "1", "infinity", "2"}

\* A Lock-Token header that is not a Coded-URL in angle brackets.
BadToken == -1

\* The durations a Timeout header asks for, in seconds; -1 is infinite.
Timeouts == {-1, 5}

\* A Timeout header that parseTimeout rejects.
BadTimeout == -2

DavRequests ==
    {DavRequest("DELETE", q, <<"">>, NoIf) : q \in Paths \cup {<<"a", "e">>}}
    \cup {[DavRequest("DELETE", <<"">>, <<"">>, NoIf) EXCEPT !.rooted = FALSE]}
    \cup {DavRequest(m, sd[1], sd[2], ih) :
            m \in {"COPY", "MOVE"}, sd \in CopyMovePairs, ih \in IfHeaders}
    \cup {DavRequest("COPY", <<"f">>, <<"">>, NoIf)}
    \cup {DavRequest("PROPPATCH", q, <<"">>, ih) : q \in {<<"f">>, <<"">>}, ih \in IfHeaders}
    \cup {[DavRequest("PROPPATCH", <<"">>, <<"">>, NoIf) EXCEPT !.rooted = FALSE]}
    \cup {[DavRequest("LOCK", q, <<"">>, ih) EXCEPT !.dur = t] :
            q \in {<<"f">>}, ih \in IfHeaders, t \in Timeouts}
    \cup {[DavRequest("LOCK", <<"f">>, <<"">>, NoIf) EXCEPT !.dur = BadTimeout]}
    \cup {[DavRequest("LOCK", q, <<"">>, NoIf) EXCEPT !.body = "lockinfo", !.clen = 1,
                                                      !.depth = z] :
            q \in {<<"f">>, <<"a">>, <<"a", "f">>, <<"b", "f">>}, z \in {"0", "infinity"}}
    \cup {[DavRequest("LOCK", <<"f">>, <<"">>, NoIf) EXCEPT !.body = "lockinfo", !.clen = 1,
                                                          !.depth = z] : z \in {"", "1"}}
    \cup {[DavRequest("LOCK", <<"">>, <<"">>, NoIf) EXCEPT !.body = "lockinfo", !.clen = 1,
                                                         !.rooted = FALSE]}
    \cup {[DavRequest("UNLOCK", <<"f">>, <<"">>, NoIf) EXCEPT !.token = t] :
            t \in {1, 9, BadToken}}
    \cup {[DavRequest("PROPFIND", q, <<"">>, NoIf) EXCEPT !.depth = z] :
            q \in {<<"">>, <<"a">>, <<"f">>, <<"b">>}, z \in Depths}
    \cup {[DavRequest("PROPFIND", <<"">>, <<"">>, NoIf) EXCEPT !.depth = "1", !.clen = 1,
                                                             !.body = "propfind"]}
    \cup {[DavRequest("PROPFIND", q, <<"">>, NoIf) EXCEPT !.depth = z, !.clen = n,
                                                        !.body = "quota"] :
            q \in {<<"">>, <<"f">>}, z \in {"", "2"}, n \in {1, -1}}
    \cup {[DavRequest("GET", <<"a">>, <<"">>, NoIf) EXCEPT !.depth = z] : z \in {"", "0"}}
    \cup {DavRequest("GET", q, <<"">>, NoIf) : q \in {<<"">>, <<"f">>, <<"b">>}}
    \cup {DavRequest("HEAD", q, <<"">>, NoIf) : q \in {<<"a">>, <<"f">>}}
    \cup {DavRequest("PATCH", <<"f">>, <<"">>, NoIf)}
    \cup {DavRequest("MKCOL", q, <<"">>, NoIf) :
            q \in {<<"d">>, <<"a">>, <<"a", "d">>, <<"b", "d">>, <<"a", "e">>}}
    \cup {[DavRequest("MKCOL", q, <<"">>, NoIf) EXCEPT !.clen = n, !.body = "mkcol"] :
            q \in {<<"a", "e">>, <<"b", "d">>}, n \in {1, -1}}
    \cup {[DavRequest(m, <<"f">>, <<"">>, NoIf) EXCEPT !.auth = a] :
            m \in {"PUT", "DELETE", "LOCK", "PROPFIND"}, a \in {"none", "wrong"}}

\* The request is over with this status: the one the handler returned and
\* ServeHTTP wrote, or the one the handler wrote itself, or the 200 that
\* net/http sends for a handler that returned 0 and wrote none.
Done(d, status) == [d EXCEPT !.pc = "done", !.status = IF status = 0 THEN 200 ELSE status]

\* The handler returned a non-nil error with this status.
Err(d, status) == [Done(d, status) EXCEPT !.err = TRUE]

\* What a collaborator returns: the status, with an error from 400 on.
Ret(d, status) == IF status >= 400 THEN Err(d, status) ELSE Done(d, status)

\* The request with more backend calls that read the drive on its record.
Read(d, names) == [d EXCEPT !.reads = @ \cup names]

\* The request with one more backend call on its record.
Called(d, call) == [d EXCEPT !.calls = Append(@, call)]

\* The methods ServeHTTP has a handler for.
Methods ==
    {"OPTIONS", "GET", "HEAD", "POST", "DELETE", "PUT", "MKCOL", "COPY", "MOVE", "LOCK",
     "UNLOCK", "PROPFIND", "PROPPATCH"}

\* The credentials are accepted.
Authorized_AnyPassword(a) == a # "none"

\* The credentials are accepted: basic-auth credentials are present and
\* are the configured user and password.
Authorized(a) == a = "ok"

\* A request arrives at the function main registered. Without accepted
\* credentials it is answered 401 there. A GET for a folder (isDir: what
\* Stat says) is turned into a PROPFIND, of Depth 1 if it has no Depth
\* header. ServeHTTP dispatches on the method; for one it has no handler
\* for, the status and the error it started with remain.
DavBegin ==
    /\ dav.pc \in {"idle", "done"}
    /\ \A p \in Procs : rq[p].pc \in {"idle", "done"}
    /\ nreq < MaxReqs
    /\ \E q \in DavRequests, isDir \in BOOLEAN :
          LET listing == q.method = "GET" /\ q.rooted /\ isDir
              method == IF listing THEN "PROPFIND" ELSE q.method
              d == [IdleDav EXCEPT !.no = nreq + 1, !.method = method, !.src = q.src,
                       !.rooted = q.rooted, !.dst = q.dst, !.ifh = q.ifh,
                       !.body = q.body, !.clen = q.clen,
                       !.depth = IF listing /\ q.depth = "" THEN "1" ELSE q.depth,
                       !.dur = q.dur, !.token = q.token, !.auth = q.auth,
                       !.inval = {x \in dav.inval \cup dav.dropped : ~CacheHas(cache, Key("FID_", x))},
                       !.ls0 = ls, !.remote0 = remote, !.cache0 = cache]
          IN
            dav' = IF ~Authorized(q.auth)
                   THEN Done([d EXCEPT !.method = q.method, !.depth = q.depth], 401)
                   ELSE IF method \notin Methods THEN Err(d, 400)
                   ELSE [d EXCEPT !.pc = method]
    /\ nreq' = nreq + 1
    /\ UNCHANGED <<goos, cfg, now, cache, remote, rq, calc, ls, net>>

\* A PUT request for /f or /a/f arrives while no other request is being
\* served; its body is one byte long or, for /f, one byte longer than
\* RapidMin.
DavPutBegin(p) ==
    /\ dav.pc \in {"idle", "done"}
    /\ rq[p].pc \in {"idle", "done"}
    /\ nreq < MaxReqs
    /\ \E q \in {<<"f">>, <<"a", "f">>}, n \in {Sz(0, 1), SzAdd(RapidMin, Sz(0, 1))}, b \in Bodies :
          /\ q = <<"a", "f">> => n = Sz(0, 1)
          /\ Upd(p, [IdleReq EXCEPT !.pc = "put_check", !.no = nreq + 1, !.path = q,
                        !.len = n, !.body = b])
    /\ nreq' = nreq + 1
    /\ UNCHANGED <<goos, cfg, now, cache, remote, calc, ls, dav, net>>

\* aliyun.RemoveTrash, then the two cache deletions.
Trash(d, fi, ok) ==
    /\ dav' = Done([Called(d, <<"RemoveTrash", fi.FileId>>) EXCEPT !.dropped = {d.src}], 204)
    /\ remote' = IF ok THEN {o \in remote : o.id # fi.FileId} ELSE remote
    /\ cache' = CacheDelete(CacheDelete(cache, Key("FID_", d.src)),
                            Key("FI_", <<fi.FileId>>))

\* handleDelete: the object is looked up by the id cached for the path (the
\* root's, if none is) and, if its name is not the last segment, by a walk
\* from the root; what was found is trashed; the answer is 204.
HandleDelete ==
    /\ dav.pc = "DELETE"
    /\ LET d == dav
           strArr == d.src
       IN
         IF ~d.rooted
         THEN dav' = Err(d, 404) /\ UNCHANGED <<cache, remote>>
         ELSE IF strArr = <<"">>
         THEN dav' = Done(d, 204) /\ UNCHANGED <<cache, remote>>
         ELSE \E detail \in BOOLEAN, ok \in BOOLEAN :
                LET fi == GetFileDetail(getParentFileId(strArr), detail)
                    d1 == Read([d EXCEPT !.cread = TRUE], {"GetFileDetail"})
                    d2 == Read(d1, {"Walk"})
                IN
                  IF fi.Name = Last(strArr)
                  THEN Trash(d1, fi, ok)
                  ELSE \E w \in Walk(strArr) :
                         IF w # NoFile /\ w.Name = Last(strArr)
                         THEN Trash(d2, w, ok)
                         ELSE dav' = Done(d2, 204) /\ UNCHANGED <<cache, remote>>
    /\ UNCHANGED <<goos, cfg, now, nreq, rq, calc, ls, net>>

\* The branch of handleCopyMove a request takes: a rename if source and
\* destination have their last "/" at the same index and agree up to it,
\* a move if they agree after it and have it at different indices.
IsRename(src, dst) ==
    \/ LastIndex(src) = -1 /\ LastIndex(dst) = -1
    \/ LastIndex(src) = LastIndex(dst) /\ Front(src) = Front(dst)

IsBatchMove(src, dst) ==
    /\ ~IsRename(src, dst)
    /\ Last(src) = Last(dst)
    /\ LastIndex(src) # LastIndex(dst)

\* aliyun.ReName and aliyun.BatchFile, if the backend carries them out.
ReName(R, name, id) == {IF o.id = id THEN [o EXCEPT !.name = name] ELSE o : o \in R}

BatchFile(R, id, parent) == {IF o.id = id THEN [o EXCEPT !.parent = parent] ELSE o : o \in R}

\* The status moveFiles and copyFiles may return.
TreeStatuses == {201, 204, 404, 412}

\* The record of a lookup by GetFileDetail(getParentFileId(..)) that gave
\* fi0, and of the Walk that follows if it gave nothing.
Looked(d, fi0) ==
    Read([d EXCEPT !.cread = TRUE],
         {"GetFileDetail"} \cup (IF fi0.FileId = "" THEN {"Walk"} ELSE {}))

\* handleCopyMove. The object is looked up as in handleDelete, but any
\* object found by id is taken. detail, pdetail: whether GetFileDetail
\* answers for the source and the destination's parent; ok: whether the
\* backend carries out the call.
HandleCopyMove ==
    /\ dav.pc \in {"COPY", "MOVE"}
    /\ LET d == dav
           src == d.src
           dst == d.dst
       IN
         IF dst = <<"">>
         THEN dav' = Err(d, 400) /\ UNCHANGED <<cache, remote>>
         ELSE IF IsRename(src, dst)
         THEN \E detail \in BOOLEAN, ok \in BOOLEAN :
                LET fi0 == GetFileDetail(getParentFileId(src), detail)
                    r == Looked([d EXCEPT !.branch = "rename"], fi0)
                IN
                  \E fi \in (IF fi0.FileId = "" THEN Walk(src) ELSE {fi0}) :
                     IF fi = NoFile
                     THEN /\ dav' = Err(r, 0)
                          /\ UNCHANGED <<cache, remote>>
                     ELSE /\ dav' = Done(Called(r, <<"ReName", fi.FileId, Last(dst)>>), 204)
                          /\ remote' = IF ok THEN ReName(remote, Last(dst), fi.FileId)
                                       ELSE remote
                          /\ UNCHANGED cache
         ELSE IF IsBatchMove(src, dst)
         THEN \E detail \in BOOLEAN, pdetail \in BOOLEAN, ok \in BOOLEAN :
                LET fi0 == GetFileDetail(getParentFileId(src), detail)
                    e == Looked([d EXCEPT !.branch = "move"], fi0)
                IN
                  \E fi \in (IF fi0.FileId = "" THEN Walk(src) ELSE {fi0}) :
                     IF fi = NoFile
                     THEN dav' = Err(e, 404) /\ UNCHANGED <<cache, remote>>
                     ELSE IF LastIndex(dst) = -1
                     THEN \* dst[:dstIndex] panics
                          /\ dav' = [e EXCEPT !.pc = "done", !.panicked = TRUE]
                          /\ UNCHANGED <<cache, remote>>
                     ELSE LET strArrParent == Front(dst)
                              p0 == GetFileDetail(getParentFileId(strArrParent), pdetail)
                          IN
                            \E parent \in (IF p0.FileId = "" THEN Walk(strArrParent) ELSE {p0}) :
                               IF parent = NoFile
                               THEN dav' = Err(Looked(e, p0), 404) /\ UNCHANGED <<cache, remote>>
                               ELSE LET c == Called(Looked(e, p0),
                                                    <<"BatchFile", fi.FileId, parent.FileId>>)
                                        c1 == CacheDelete(cache, Key("FID_", src))
                                    IN
                                      /\ remote' = IF ok
                                                   THEN BatchFile(remote, fi.FileId, parent.FileId)
                                                   ELSE remote
                                      /\ IF LastIndex(src) = -1
                                         THEN \* src[:srcIndex] panics
                                              /\ dav' = [c EXCEPT !.pc = "done", !.panicked = TRUE,
                                                                  !.dropped = {src}]
                                              /\ cache' = c1
                                         ELSE /\ dav' = Done([c EXCEPT !.dropped = {src, dst}], 204)
                                              /\ cache' =
                                                   CacheDelete(
                                                     CacheDelete(
                                                       CacheDelete(c1, Key("FID_", Front(src))),
                                                       Key("FID_", dst)),
                                                     Key("FID_", Front(dst)))
         ELSE IF d.method = "COPY"
         THEN /\ dav' = [d EXCEPT !.branch = "generic", !.pc = "confirm",
                                  !.csrc = <<"">>, !.cdst = dst]
              /\ UNCHANGED <<cache, remote>>
         ELSE \E depthOk \in BOOLEAN, status \in TreeStatuses :
                /\ dav' = IF depthOk
                          THEN Ret(Called([d EXCEPT !.branch = "generic"], <<"moveFiles">>), status)
                          ELSE Err([d EXCEPT !.branch = "generic"], 400)
                /\ UNCHANGED <<cache, remote>>
    /\ UNCHANGED <<goos, cfg, now, nreq, rq, calc, ls, net>>

\* handleProppatch up to its call of confirmLocks.
HandleProppatch ==
    /\ dav.pc = "PROPPATCH"
    /\ dav' = IF ~dav.rooted THEN Err(dav, 404)
              ELSE [dav EXCEPT !.pc = "confirm", !.csrc = dav.src, !.cdst = <<"">>]
    /\ UNCHANGED <<goos, cfg, now, cache, remote, nreq, rq, calc, ls, net>>

\* Handler.lock: a temporary lock of depth zero and infinite duration.
TempLock(s, name) == LsCreate(s, name, TRUE, -1)

\* The lock table a failed second temporary lock leaves.
DstLockFailed_KeepSrc(s1) == s1.ls

\* The lock table a failed second temporary lock leaves: the first, if one
\* was taken, is unlocked.
DstLockFailed(s1) == IF s1.token # 0 THEN LsUnlock(s1.ls, s1.token) ELSE s1.ls

\* The loop of confirmLocks over the lists of a parsed If header, from list
\* k on: the status it returns (0: confirmed), the list used and the locks
\* held. A list tagged with another host is skipped, one tagged with a path
\* that lacks the prefix ends the loop with stripPrefix's status, one that
\* the lock system does not confirm is skipped; after the last, 412.
RECURSIVE ConfirmLists(_, _, _, _, _)
ConfirmLists(L, lists, k, src, dst) ==
    IF k > Len(lists) THEN [status |-> 412, used |-> 0, holds |-> {}]
    ELSE LET l == lists[k]
             lsrc == IF l.tag = "" THEN src ELSE l.path
         IN
           IF l.tag = "other" THEN ConfirmLists(L, lists, k + 1, src, dst)
           ELSE IF l.tag = "bare" THEN [status |-> 404, used |-> 0, holds |-> {}]
           ELSE IF ConfirmOk(L, lsrc, dst, l.conds)
           THEN [status |-> 0, used |-> k, holds |-> ConfirmHolds(L, lsrc, dst, l.conds)]
           ELSE ConfirmLists(L, lists, k + 1, src, dst)

\* confirmLocks(r, csrc, cdst).
ConfirmLocks ==
    /\ dav.pc = "confirm"
    /\ LET d == dav IN
         IF d.ifh.hdr = ""
         THEN LET s1 == IF d.csrc # <<"">> THEN TempLock(ls, d.csrc)
                        ELSE [ls |-> ls, token |-> 0]
                  s2 == IF d.cdst # <<"">> THEN TempLock(s1.ls, d.cdst)
                        ELSE [ls |-> s1.ls, token |-> 0]
              IN
                IF d.csrc # <<"">> /\ s1.token = 0
                THEN dav' = Err(d, 423) /\ ls' = s1.ls
                ELSE IF d.cdst # <<"">> /\ s2.token = 0
                THEN /\ dav' = Err([d EXCEPT !.temp = {s1.token} \ {0}], 423)
                     /\ ls' = DstLockFailed(s1)
                ELSE /\ dav' = [d EXCEPT !.pc = "body",
                                         !.temp = {s1.token, s2.token} \ {0}]
                     /\ ls' = s2.ls
         ELSE IF ~ParseOk(d.ifh)
         THEN dav' = Err(d, 400) /\ UNCHANGED ls
         ELSE LET c == ConfirmLists(ls.locks, d.ifh.lists, 1, d.csrc, d.cdst) IN
                IF c.status # 0
                THEN dav' = Err(d, c.status) /\ UNCHANGED ls
                ELSE /\ dav' = [d EXCEPT !.pc = "body", !.used = c.used, !.held = c.holds]
                     /\ ls' = Hold(ls, c.holds, TRUE)
    /\ UNCHANGED <<goos, cfg, now, cache, remote, nreq, rq, calc, net>>

\* release(): the temporary locks are unlocked, the confirmed ones let go.
Release(s, d) ==
    LET u == [s EXCEPT !.locks = {l \in @ : l.token \notin d.temp}]
    IN Hold(u, d.held, FALSE)

\* The rest of a handler that holds confirmed locks, and the deferred
\* release: copyFiles after the Depth check, or Stat, readProppatch and
\* patch, which answer 404, 405, a parse status, 500 or a multi-status.
Body ==
    /\ dav.pc = "body"
    /\ \E status \in (IF dav.method = "COPY" THEN TreeStatuses ELSE {404, 405, 500, 207}),
          before \in BOOLEAN :
          dav' = IF before THEN Err(dav, 400)
                 ELSE Ret(Called(dav, <<IF dav.method = "COPY" THEN "copyFiles"
                                         ELSE "patch">>), status)
    /\ ls' = Release(ls, dav)
    /\ UNCHANGED <<goos, cfg, now, cache, remote, nreq, rq, calc, net>>

\* The token a LOCK request without a body refreshes: the only condition
\* of the only list.
RefreshToken_First(ih) == ih.lists[1].conds[1]

\* The token a LOCK request without a body refreshes: the only condition
\* of the only list of its If header, if it has just one; 0 is none.
RefreshToken(ih) ==
    IF Len(ih.lists) = 1 /\ Len(ih.lists[1].conds) = 1 THEN ih.lists[1].conds[1] ELSE 0

\* The lock table after handleLock returned an error.
LockFailed_Keep(c) == c.ls

\* The lock table after handleLock returned an error with the lock c
\* created: the deferred function unlocks it.
LockFailed(c) == LsUnlock(c.ls, c.token)

\* handleLock. Without a body the lock named by the If header is refreshed.
\* With one a lock is created on the path, and the request is answered 201
\* if GetFileDetail has nothing for the id cached for the path (the root's,
\* if none is), else 200; the lock is given up if the parent is not found.
HandleLock ==
    /\ dav.pc = "LOCK"
    /\ LET d == dav IN
         IF d.dur = BadTimeout
         THEN dav' = Err(d, 400) /\ UNCHANGED ls
         ELSE IF d.body = ""
         THEN IF ~ParseOk(d.ifh)
              THEN dav' = Err(d, 400) /\ UNCHANGED ls
              ELSE LET token == RefreshToken(d.ifh) IN
                     IF token = 0
                     THEN dav' = Err(d, 400) /\ UNCHANGED ls
                     ELSE IF LsUnlockErr(ls, token) = "ErrNoSuchLock"
                     THEN dav' = Err(d, 412) /\ UNCHANGED ls
                     ELSE IF LsUnlockErr(ls, token) # ""
                     THEN dav' = Err(d, 500) /\ UNCHANGED ls
                     ELSE /\ dav' = Done([d EXCEPT !.granted = token], 0)
                          /\ ls' = LsRefresh(ls, token, d.dur)
         ELSE IF DepthOf(d.depth) \notin {0, infiniteDepth}
         THEN dav' = Err(d, 400) /\ UNCHANGED ls
         ELSE IF ~d.rooted
         THEN dav' = Err(d, 404) /\ UNCHANGED ls
         ELSE LET c == LsCreate(ls, d.src, DepthOf(d.depth) = 0, d.dur) IN
                IF c.token = 0
                THEN dav' = Err(d, 423) /\ UNCHANGED ls
                ELSE \E pdetail \in BOOLEAN, detail \in BOOLEAN :
                       LET parent == GetFileDetail(getFileId(d.src), pdetail)
                           fi == GetFileDetail(getParentFileId(d.src), detail)
                       IN
                         IF d.src # <<"">> /\ parent = NoFile
                         THEN /\ dav' = Err(Read([d EXCEPT !.cread = TRUE],
                                                 {"GetFileDetail"}), 409)
                              /\ ls' = LockFailed(c)
                         ELSE /\ dav' = Done([d EXCEPT !.granted = c.token,
                                                       !.cread = d.src # <<"">>,
                                                       !.reads = IF d.src # <<"">>
                                                                 THEN {"GetFileDetail"}
                                                                 ELSE {}],
                                             IF d.src = <<"">> \/ fi = NoFile THEN 201 ELSE 0)
                              /\ ls' = c.ls
    /\ UNCHANGED <<goos, cfg, now, cache, remote, nreq, rq, calc, net>>

\* handleUnlock.
HandleUnlock ==
    /\ dav.pc = "UNLOCK"
    /\ IF dav.token = BadToken
       THEN dav' = Err(dav, 400) /\ UNCHANGED ls
       ELSE LET err == LsUnlockErr(ls, dav.token) IN
              /\ dav' = Ret(dav, CASE err = "" -> 204
                                   [] err = "ErrLocked" -> 423
                                   [] OTHER -> 409)
              /\ ls' = LsUnlock(ls, dav.token)
    /\ UNCHANGED <<goos, cfg, now, cache, remote, nreq, rq, calc, net>>

\* The elements of a sequence.
Elems(seq) == {seq[i] : i \in 1..Len(seq)}

\* The ids the drive may hold, in the order listings give them.
AllIds == <<"root", "ida", "idc", "idd", OldFileId>> \o FileIds

\* The backend lists id: it is a folder, or a file that is available.
Listed(id) ==
    \/ \E q \in DOMAIN Folders : Folders[q] = id
    \/ \E o \in remote : o.id = id /\ o.avail

IsFolder(id) ==
    \/ \E q \in DOMAIN Folders : Folders[q] = id
    \/ \E o \in remote : o.id = id /\ o.type = "folder"

\* The items of the listing of folder id.
Children(id) ==
    SelectSeq(AllIds, LAMBDA c : c # "root" /\ Listed(c) /\ FileDetail(c).ParentFileId = id)

\* The depth walkFS goes on with below a folder.
DepthStep_Keep(depth) == depth

\* The depth walkFS goes on with below a folder: 0 after 1, else the same.
DepthStep(depth) == IF depth = 1 THEN 0 ELSE depth

\* walkFS: walkFn is called for the node and, unless depth is 0 or the node
\* is a file, walkFS for each of its children one level down. The value is
\* the sequence of nodes walkFn was called for; walkAll is the loop over
\* the children.
RECURSIVE walkFS(_, _), walkAll(_, _)
walkFS(depth, id) ==
    <<id>> \o (IF ~IsFolder(id) \/ depth = 0 THEN <<>>
              ELSE walkAll(DepthStep(depth), Children(id)))

walkAll(depth, ids) ==
    IF ids = <<>> THEN <<>> ELSE walkFS(depth, Head(ids)) \o walkAll(depth, Tail(ids))

\* The "FID_" entries handlePropfind stores for the items of a listing.
RECURSIVE SetChildren(_, _, _)
SetChildren(c, reqPath, ids) ==
    IF ids = <<>> THEN c
    ELSE SetChildren(CacheSet(c, <<"FID_", reqPath \o <<FileDetail(Head(ids)).Name>>>>,
                              Head(ids)),
                     reqPath, Tail(ids))

\* handlePropfind. A body of declared length that asks for the quota is
\* answered from GetBoxSize. Else the path is walked and the ids of the
\* node and of its children are cached; then the Depth header and the body
\* are parsed, and walkFS writes one response for each node it visits.
\* failed: Walk returned an error; pf: readPropfind accepts the body;
\* walked: walkFS returned no error.
HandlePropfind ==
    /\ dav.pc = "PROPFIND"
    /\ LET d == dav IN
         IF d.clen > 0 /\ d.body = "quota"
         THEN /\ dav' = Done([Read(d, {"GetBoxSize"}) EXCEPT !.out = <<"quota">>], 0)
              /\ UNCHANGED cache
         ELSE LET reqPath == d.src
                  w == [Read(d, {"Walk"}) EXCEPT !.cread = Len(reqPath) > 1]
              IN
                \E fi \in Walk(reqPath), failed \in BOOLEAN, pf \in BOOLEAN,
                   walked \in BOOLEAN :
                   IF fi = NoFile
                   THEN /\ dav' = IF failed THEN Err(w, 404) ELSE Done(w, 404)
                        /\ UNCHANGED cache
                   ELSE /\ cache' = SetChildren(CacheSet(cache, Key("FID_", reqPath), fi.FileId),
                                                reqPath, Children(fi.FileId))
                        /\ LET t == [w EXCEPT !.target = fi.FileId]
                               depth == DepthOf(d.depth)
                           IN
                             dav' = IF depth = invalidDepth THEN Err(t, 400)
                                    ELSE IF ~pf THEN Err(t, 400)
                                    ELSE IF ~walked THEN Done(t, 500)
                                    ELSE Done([t EXCEPT !.out = walkFS(depth, fi.FileId)], 0)
    /\ UNCHANGED <<goos, cfg, now, remote, nreq, rq, calc, ls, net>>

\* handleGetHeadPost for a GET or a HEAD. The object is looked up as in
\* handleCopyMove and, unless the method is HEAD, its content sent.
\* etag: findETag returns no error.
HandleGet ==
    /\ dav.pc \in {"GET", "HEAD"}
    /\ LET d == dav
           strArr == d.src
       IN
         \E detail \in BOOLEAN, etag \in BOOLEAN :
            IF strArr # <<"">>
            THEN LET fi0 == GetFileDetail(getParentFileId(strArr), detail)
                     g == Looked(d, fi0)
                 IN
                   \E fi \in (IF fi0.FileId = "" THEN Walk(strArr) ELSE {fi0}) :
                      IF fi = NoFile THEN dav' = Err(g, 0)
                      ELSE LET c == Read([g EXCEPT !.target = fi.FileId],
                                         IF d.method # "HEAD"
                                         THEN {"GetDownloadUrl", "GetFile"} ELSE {})
                           IN dav' = IF IsFolder(fi.FileId) THEN Done(c, 405)
                                     ELSE IF ~etag THEN Err(c, 500)
                                     ELSE Done(c, 0)
            ELSE dav' = IF ~etag THEN Err(d, 500) ELSE Done(d, 0)
    /\ UNCHANGED <<goos, cfg, now, cache, remote, nreq, rq, calc, ls, net>>

\* The items of a listing up to the first of this name, if there is one.
RECURSIVE UpTo(_, _)
UpTo(ids, name) ==
    IF ids = <<>> THEN <<>>
    ELSE IF FileDetail(Head(ids)).Name = name THEN <<Head(ids)>>
    ELSE <<Head(ids)>> \o UpTo(Tail(ids), name)

\* The cache entries handleMkcol stores for the items of the parent's
\* listing: the id under the item's path, the item under its id.
RECURSIVE SetItems(_, _, _)
SetItems(c, parentArr, ids) ==
    IF ids = <<>> THEN c
    ELSE LET item == FileDetail(Head(ids)) IN
           SetItems(CacheSet(CacheSet(c, <<"FID_", parentArr \o <<item.Name>>>>, item.FileId),
                             Key("FI_", <<item.FileId>>),
                             [FileId |-> item.FileId, Name |-> item.Name]),
                    parentArr, Tail(ids))

\* The folder aliyun.MakeDir creates.
NewFolder(id, name, parent) ==
    [id |-> id, parent |-> parent, name |-> name, hash |-> "", size |-> Zero,
     avail |-> TRUE, type |-> "folder"]

\* The end of handleMkcol: MakeDir for the name in the parent; the new
\* folder's id is cached under the path, the folder under "FI" + id, and
\* the folder is appended to the parent's listing if that is cached.
MakeDir(d, c, name, parentFileId, made) ==
    LET id == FileIds[d.no]
        m == Called(d, <<"MakeDir", name, parentFileId>>)
        listing == Key("", <<parentFileId>>)
        c1 == CacheSet(CacheSet(c, Key("FID_", d.src), id),
                       Key("FI", <<id>>), [FileId |-> id, Name |-> name])
    IN
      IF made
      THEN /\ remote' = remote \cup {NewFolder(id, name, parentFileId)}
           /\ cache' = IF CacheHas(c1, listing)
                       THEN CacheSet(c1, listing, Append(c1[listing], id))
                       ELSE c1
           /\ dav' = Done([m EXCEPT !.target = id], 201)
      ELSE /\ dav' = Err(m, 409)
           /\ cache' = c
           /\ UNCHANGED remote

\* handleMkcol. pdetail: whether GetFileDetail answers for the parent;
\* walk: what WalkFolder returns for the parent's path; stores: whether it
\* caches the listing; made: whether MakeDir returns a folder.
HandleMkcol ==
    /\ dav.pc = "MKCOL"
    /\ LET d == dav
           strArr == d.src
       IN
         IF d.clen > 0
         THEN dav' = Done(d, 415) /\ UNCHANGED <<cache, remote>>
         ELSE IF strArr = <<"">>
         THEN dav' = Done(d, 201) /\ UNCHANGED <<cache, remote>>
         ELSE \E pdetail \in BOOLEAN, walk \in {"err", "found"}, stores \in BOOLEAN,
                 made \in BOOLEAN :
                IF LastIndex(strArr) = -1
                THEN MakeDir(d, cache, Last(strArr), "root", made)
                ELSE LET pi == GetFileDetail(getFileId(strArr), pdetail)
                         g == Read([d EXCEPT !.cread = TRUE], {"GetFileDetail"})
                         parentArr == Front(strArr)
                     IN
                       IF pi = NoFile \/ pi.FileId = "root"
                       THEN IF walk = "err" \/ parentArr \notin DOMAIN Folders
                            THEN /\ dav' = Err(Read(g, {"WalkFolder"}), 409)
                                 /\ UNCHANGED <<cache, remote>>
                            ELSE LET p == FileDetail(Folders[parentArr])
                                     chd == Children(p.FileId)
                                     w == WalkFolderCaches(cache, p.FileId, stores)
                                 IN
                                   IF \E c \in Elems(chd) : FileDetail(c).Name = Last(strArr)
                                   THEN /\ dav' = Err(Read(g, {"WalkFolder"}), 100)
                                        /\ cache' = SetItems(w, parentArr,
                                                             UpTo(chd, Last(strArr)))
                                        /\ UNCHANGED remote
                                   ELSE MakeDir(Read(g, {"WalkFolder"}),
                                                CacheSet(CacheSet(SetItems(w, parentArr, chd),
                                                                  Key("FID_", parentArr), p.FileId),
                                                         Key("FI_", <<p.FileId>>),
                                                         [FileId |-> p.FileId, Name |-> p.Name]),
                                                Last(strArr), p.FileId, made)
                       ELSE MakeDir(g, cache, Last(strArr), pi.FileId, made)
    /\ UNCHANGED <<goos, cfg, now, nreq, rq, calc, ls, net>>

\* confirmLocks applied to a source and a destination, as the MOVE branch
\* of handleCopyMove called it, followed by the release.
ConfirmBoth ==
    /\ dav.pc \in {"idle", "done"}
    /\ \A p \in Procs : rq[p].pc \in {"idle", "done"}
    /\ nreq < MaxReqs
    /\ \E sd \in {<<<<"f">>, <<"a", "f">>>>, <<<<"a", "f">>, <<"f">>>>},
          ih \in {NoIf, [hdr |-> "ok", lists |-> <<IfList("", <<"">>, <<1>>)>>]} :
          dav' = [IdleDav EXCEPT !.pc = "confirm", !.no = nreq + 1, !.method = "confirmLocks",
                     !.src = sd[1], !.dst = sd[2], !.csrc = sd[1], !.cdst = sd[2],
                     !.ifh = ih, !.ls0 = ls, !.remote0 = remote, !.cache0 = cache]
    /\ nreq' = nreq + 1
    /\ UNCHANGED <<goos, cfg, now, cache, remote, rq, calc, ls, net>>

\* The dispatcher at work on a drive that holds OldFile: requests of all
\* methods, one after the other, each served within the lifetime of its
\* upload URLs (the clock stands at MaxTime): no URL is renewed, and
\* ContentHandle does not panic.
InitDav ==
    /\ goos = "linux"
    /\ now = MaxTime
    /\ cache = <<>>
    /\ remote = {OldFile}
    /\ nreq = 0
    /\ rq = [p \in Procs |-> IdleReq]
    /\ calc = IdleCalc
    /\ ls = NoLocks
    /\ dav = IdleDav
    /\ net = IdleNet
    /\ cfg = IdleCfg

NextDav ==
    \/ \E p \in Procs :
         \/ DavPutBegin(p) \/ PutCheck(p) \/ PutResolve(p) \/ PutMark(p)
         \/ PutFinish(p)
         \/ CH_Start(p) \/ CH_SpoolCreate(p) \/ CH_Copy(p) \/ CH_Probe(p)
         \/ CH_Proof(p) \/ CH_Hash(p) \/ CH_CreateHashed(p) \/ CH_CreatePlain(p)
         \/ CH_CheckUrls(p) \/ CH_Read(p) \/ CH_Expiry(p)
         \/ CH_Upload(p) \/ CH_Complete(p)
         \/ CH_DeferRemove(p) \/ CH_DeferClose(p)
    \/ DavBegin
    \/ HandleDelete
    \/ HandleCopyMove
    \/ HandleProppatch
    \/ ConfirmLocks
    \/ Body
    \/ HandleLock
    \/ HandleUnlock
    \/ HandlePropfind
    \/ HandleGet
    \/ HandleMkcol
    \/ ConfirmBoth

SpecDav == InitDav /\ [][NextDav]_vars

(* ------------------------- the configuration -------------------------- *)

\* The seconds the clock goes on in one step.
Ticks == {50, 100}

\* The margin of the test ServeHTTP makes on ExpireTime.
ExpiryMargin == 100

\* ServeHTTP's test on entry: the token is to be refreshed.
NeedsRefresh(config, t) == config.ExpireTime < t - ExpiryMargin

\* Client p with these fields, the rest of cfg as it is.
Client(p, c) == [cfg EXCEPT !.c[p] = c]

\* An assignment to h.Config writes one field of the struct.
WriteField(config, new, f) == [config EXCEPT ![f] = new[f]]

\* Time goes by.
CfgTick ==
    /\ \E t \in Ticks :
          /\ cfg.clock + t <= MaxClock
          /\ cfg' = [cfg EXCEPT !.clock = @ + t]
    /\ UNCHANGED <<goos, now, cache, remote, nreq, rq, calc, ls, dav, net>>

\* A request enters ServeHTTP, which tests h.Config.ExpireTime.
ServeEntry(p) ==
    /\ cfg.c[p].pc \in {"idle", "done"}
    /\ NeedsRefresh(cfg.Config, cfg.clock) => cfg.gen < MaxGen
    /\ cfg' = Client(p, [IdleClient EXCEPT !.pc = IF NeedsRefresh(cfg.Config, cfg.clock)
                                                 THEN "refresh" ELSE "dispatch"])
    /\ UNCHANGED <<goos, now, cache, remote, nreq, rq, calc, ls, dav, net>>

\* RefreshToken(refreshToken) succeeds: the backend knows the token and
\* the call goes through.
Refreshed(refreshToken, ok) == ok /\ refreshToken # NoCredential

\* ServeHTTP calls RefreshToken with h.Config.RefreshToken and builds the
\* new Config from what it answers.
ServeRefresh(p) ==
    /\ cfg.c[p].pc = "refresh"
    /\ cfg.gen < MaxGen
    /\ \E life \in Lifetimes, ok \in BOOLEAN :
          IF Refreshed(cfg.Config.RefreshToken, ok)
          THEN cfg' = [Client(p, [cfg.c[p] EXCEPT !.pc = "store",
                                    !.new = Snapshot(cfg.gen + 1, cfg.clock, life),
                                    !.pending = Fields])
                         EXCEPT !.gen = @ + 1]
          ELSE cfg' = Client(p, [cfg.c[p] EXCEPT !.pc = "store",
                                   !.new = EmptyResult(cfg.clock),
                                   !.pending = Fields])
    /\ UNCHANGED <<goos, now, cache, remote, nreq, rq, calc, ls, dav, net>>

\* h.Config = config in ServeHTTP, one field at a time.
ServeStore(p) ==
    /\ cfg.c[p].pc = "store"
    /\ \E f \in cfg.c[p].pending :
          LET c == cfg.c[p]
              left == c.pending \ {f}
          IN cfg' = [Client(p, [c EXCEPT !.pending = left,
                                         !.pc = IF left = {} THEN "dispatch" ELSE "store"])
                       EXCEPT !.Config = WriteField(@, c.new, f)]
    /\ UNCHANGED <<goos, now, cache, remote, nreq, rq, calc, ls, dav, net>>

\* ServeHTTP dispatches the request to its handler.
ServeDispatch(p) ==
    /\ cfg.c[p].pc = "dispatch"
    /\ cfg' = Client(p, [cfg.c[p] EXCEPT !.pc = "token", !.at = cfg.clock,
                                         !.exp = cfg.Config.ExpireTime])
    /\ UNCHANGED <<goos, now, cache, remote, nreq, rq, calc, ls, dav, net>>

\* The handler evaluates h.Config.Token, the first argument of a backend
\* call.
HandlerToken(p) ==
    /\ cfg.c[p].pc = "token"
    /\ cfg' = Client(p, [cfg.c[p] EXCEPT !.pc = "drive", !.tok = cfg.Config.Token])
    /\ UNCHANGED <<goos, now, cache, remote, nreq, rq, calc, ls, dav, net>>

\* The handler evaluates h.Config.DriveId and makes the call.
HandlerDrive(p) ==
    /\ cfg.c[p].pc = "drive"
    /\ cfg' = Client(p, [cfg.c[p] EXCEPT !.pc = "done", !.drv = cfg.Config.DriveId])
    /\ UNCHANGED <<goos, now, cache, remote, nreq, rq, calc, ls, dav, net>>

\* The refresher's timer fires: it calls RefreshToken with
\* fs.Config.RefreshToken and builds the new Config from what it answers.
RefresherFire ==
    /\ cfg.r.pc = "idle"
    /\ cfg.gen < MaxGen
    /\ \E life \in Lifetimes, ok \in BOOLEAN :
          IF Refreshed(cfg.Config.RefreshToken, ok)
          THEN cfg' = [cfg EXCEPT !.gen = @ + 1,
                                  !.r = [pc |-> "store",
                                         new |-> Snapshot(cfg.gen + 1, cfg.clock, life),
                                         pending |-> Fields]]
          ELSE cfg' = [cfg EXCEPT !.r = [pc |-> "store",
                                         new |-> EmptyResult(cfg.clock),
                                         pending |-> Fields]]
    /\ UNCHANGED <<goos, now, cache, remote, nreq, rq, calc, ls, dav, net>>

\* fs.Config = model.Config{...} in refresh, one field at a time.
RefresherStore ==
    /\ cfg.r.pc = "store"
    /\ \E f \in cfg.r.pending :
          LET left == cfg.r.pending \ {f} IN
            cfg' = [cfg EXCEPT !.Config = WriteField(@, cfg.r.new, f),
                               !.r.pending = left,
                               !.r.pc = IF left = {} THEN "idle" ELSE "store"]
    /\ UNCHANGED <<goos, now, cache, remote, nreq, rq, calc, ls, dav, net>>

NextCfg ==
    \/ CfgTick
    \/ \E p \in Clients :
         \/ ServeEntry(p) \/ ServeRefresh(p) \/ ServeStore(p) \/ ServeDispatch(p)
         \/ HandlerToken(p) \/ HandlerDrive(p)
    \/ RefresherFire
    \/ RefresherStore

SpecCfg == InitDav /\ [][NextCfg]_vars

(* --------------------------- specifications --------------------------- *)

(* ------------------ two PUT requests served at once ------------------- *)

\* net/http serves every request on a goroutine of its own. Two PUTs of
\* empty files run handlePut and ContentHandle side by side; a step is
\* what a goroutine does up to and including one access to the cache or
\* one backend call. The cache itself is safe for concurrent use, each Get,
\* Set and Delete is atomic.

\* The paths of the two requests: both for /f, or one for /f and one for
\* /g, files of the same folder.
RacePaths(p) == IF p = 1 THEN {<<"f">>} ELSE {<<"f">>, <<"g">>}

\* A PUT request with ContentLength 0 arrives, whatever the other
\* goroutine is doing.
RaceBegin(p) ==
    /\ rq[p].pc = "idle"
    /\ \E q \in RacePaths(p) :
          Upd(p, [IdleReq EXCEPT !.pc = "put_check", !.no = nreq + 1, !.path = q])
    /\ nreq' = nreq + 1
    /\ UNCHANGED <<goos, cfg, now, cache, remote, calc, ls, dav, net>>

\* ContentHandle for an empty file, up to the create call: parentId
\* defaults to "root" and UpdateFileFile is called with sha1_0; without a
\* file id "" is returned.
ZeroCreate(p) ==
    /\ rq[p].pc = "ch_start"
    /\ ~SzLT(Zero, rq[p].len)
    /\ LET r == [rq[p] EXCEPT !.parentId = IF rq[p].parentFileId = "" THEN "root"
                                           ELSE rq[p].parentFileId,
                              !.creates = Append(@, ZeroCreateArgs)]
           id == FileIds[r.no]
       IN \E ok \in BOOLEAN :
            IF ok
            THEN /\ remote' = remote \cup {NewObject(r, id, ZeroCreateArgs, TRUE)}
                 /\ Upd(p, [r EXCEPT !.created = id, !.pc = "zero_get"])
            ELSE /\ Upd(p, [r EXCEPT !.failures = @ \cup {"zero_create"},
                              !.ret = "", !.pc = "put_finish"])
                 /\ UNCHANGED remote
    /\ UNCHANGED <<goos, cfg, now, cache, nreq, calc, ls, dav, net>>

\* va, ok := cache.GoCache.Get(parentId): the listing is read; without one
\* the id is returned.
ZeroGet(p) ==
    /\ rq[p].pc = "zero_get"
    /\ LET r == rq[p]
           k == Key("", <<r.parentId>>)
       IN
         IF CacheHas(cache, k)
         THEN Upd(p, [r EXCEPT !.l = cache[k], !.listed = TRUE, !.pc = "zero_set"])
         ELSE Upd(p, [r EXCEPT !.ret = r.created, !.pc = "put_finish"])
    /\ UNCHANGED <<goos, cfg, now, cache, remote, nreq, calc, ls, dav, net>>

\* l.Items = append(l.Items, GetFileDetail(fileId)), then
\* cache.GoCache.SetDefault(parentId, l), and the id is returned.
ZeroSet(p) ==
    /\ rq[p].pc = "zero_set"
    /\ \E detail \in BOOLEAN :
         LET r == rq[p]
             l == Append(r.l, IF detail THEN r.created ELSE "")
         IN
           /\ cache' = CacheSet(cache, Key("", <<r.parentId>>), l)
           /\ Upd(p, [r EXCEPT !.l = l, !.ret = r.created, !.pc = "put_finish"])
    /\ UNCHANGED <<goos, cfg, now, remote, nreq, calc, ls, dav, net>>

InitRace ==
    /\ goos \in {"linux", "windows"}
    /\ now = 0
    /\ cache = <<>>
    /\ remote = {}
    /\ nreq = 0
    /\ rq = [p \in Racers |-> IdleReq]
    /\ calc = IdleCalc
    /\ ls = NoLocks
    /\ dav = IdleDav
    /\ net = IdleNet
    /\ cfg = IdleCfg

NextRace ==
    \E p \in Racers :
       \/ RaceBegin(p) \/ PutCheck(p) \/ PutResolve(p) \/ PutMark(p)
       \/ ZeroCreate(p) \/ ZeroGet(p) \/ ZeroSet(p) \/ PutFinish(p)

SpecRace == InitRace /\ [][NextRace]_vars

Next ==
    \/ \E p \in Procs :
         \/ PutBegin(p) \/ PutCheck(p) \/ PutResolve(p) \/ PutMark(p)
         \/ PutFinish(p) \/ PutPanic(p)
         \/ CH_Start(p) \/ CH_SpoolCreate(p) \/ CH_Copy(p) \/ CH_Probe(p)
         \/ CH_Proof(p) \/ CH_Hash(p) \/ CH_CreateHashed(p) \/ CH_CreatePlain(p)
         \/ CH_CheckUrls(p) \/ CH_Read(p) \/ CH_Expiry(p) \/ CH_Renew(p)
         \/ CH_Renewed(p) \/ CH_Upload(p) \/ CH_Complete(p)
         \/ CH_DeferRemove(p) \/ CH_DeferClose(p)
    \/ SizePick
    \/ SizeProof
    \/ SizeStep

Spec == Init /\ [][Next]_vars

(* ------------------------------ properties ---------------------------- *)

\* 10 MiB, the chunk size.
TenMiB == Sz(10, 0)

\* c is the ceiling of n / 10 MiB: (c - 1) * 10 MiB < n <= c * 10 MiB.
IsCeil(n, c) == SzLT(Sz(10 * (c - 1), 0), n) /\ SzLE(n, Sz(10 * c, 0))

\* Chunk k (from 1) of count chunks of a body of n bytes has len bytes: 10
\* MiB, or for the last one what is left, between 1 byte and 10 MiB.
ChunkOk(n, count, k, len) ==
    /\ k <= count
    /\ k < count => len = TenMiB
    /\ k = count => /\ len = SzSub(n, Sz(10 * (count - 1), 0))
                    /\ SzLE(Sz(0, 1), len)
                    /\ SzLE(len, TenMiB)

RECURSIVE SzSum(_)
SzSum(s) == IF s = <<>> THEN Zero ELSE SzAdd(s[1], SzSum(Tail(s)))

\* C1: for every declared length n >= 1 ContentHandle cuts the body in
\* ceil(n / 10 MiB) chunks; every chunk but the last is 10 MiB, the last is
\* n - (count - 1) * 10 MiB, between 1 byte and 10 MiB; the sizes of the
\* chunks of a finished upload sum to n; 8 MiB is one chunk, 23 MiB is
\* chunks of 10, 10 and 3 MiB. Stated of the requests and of the harness.
C1_ChunkSizes ==
    /\ \A p \in Procs :
         LET r == rq[p] IN
           /\ r.spooled => IsCeil(r.len, r.count)
           /\ \A k \in 1..Len(r.sent) : ChunkOk(r.len, r.count, k, r.sent[k])
           /\ r.pc = "ch_expiry" => ChunkOk(r.len, r.count, r.i + 1, r.dataLen)
           /\ r.completes > 0 => Len(r.sent) = r.count /\ SzSum(r.sent) = r.len
           /\ (r.completes > 0 /\ r.len = Sz(8, 0)) => r.sent = <<Sz(8, 0)>>
           /\ (r.completes > 0 /\ r.len = Sz(23, 0))
                => r.sent = <<TenMiB, TenMiB, Sz(3, 0)>>
    /\ calc.phase # "idle" =>
         /\ IsCeil(calc.n, calc.count)
         /\ calc.i >= 1 => ChunkOk(calc.n, calc.count, calc.i, calc.lens[Len(calc.lens)])
         /\ calc.phase = "done" => calc.i = calc.count /\ calc.sum = calc.n
         /\ (calc.phase = "done" /\ calc.n = Sz(23, 0))
              => calc.lens = <<TenMiB, TenMiB, Sz(3, 0)>>

\* A PUT of 23 MiB went up in chunks of 10, 10 and 3 MiB.
C1_Witness ==
    \E p \in Procs :
       /\ rq[p].len = Sz(23, 0)
       /\ rq[p].completes = 1
       /\ rq[p].sent = <<TenMiB, TenMiB, Sz(3, 0)>>

\* The create call of r was answered with a confirmed rapid upload.
Rapid(r) == r.creates # <<>> /\ r.created # "" /\ r.flashUpload

\* C2, as the specification words it: ContentHandle calls complete-upload
\* before it returns the new object id, after all chunks succeeded and
\* after a rapid-upload confirmation alike, and never on a run in which a
\* chunk upload failed.
C2_CompleteBeforeEveryReturn ==
    \A p \in Procs :
       LET r == rq[p] IN
         /\ (r.spooled /\ r.ret # "") => r.completes = 1
         /\ "chunk_upload" \in r.failures => r.completes = 0

\* C2, amended: after all chunks succeeded ContentHandle calls
\* complete-upload, once, before it returns the new object id; after a
\* rapid-upload confirmation it returns the id without calling it and
\* without uploading a chunk; complete-upload is never called on a run in
\* which a chunk upload failed.
C2_CompleteAfterChunksOnly ==
    \A p \in Procs :
       LET r == rq[p] IN
         /\ (r.spooled /\ r.ret # "" /\ ~Rapid(r)) => r.completes = 1
         /\ r.completes <= 1
         /\ r.completes = 1 => Len(r.sent) = r.count
         /\ Rapid(r) => r.completes = 0 /\ r.sent = <<>> /\ r.ret = r.created
         /\ "chunk_upload" \in r.failures => r.completes = 0

\* A rapid upload was confirmed and answered 201 with no complete-upload.
C2_Witness ==
    \E p \in Procs :
       /\ Rapid(rq[p])
       /\ rq[p].pc = "done"
       /\ rq[p].status = 201
       /\ rq[p].completes = 0

\* C3: the URLs of an expired chunk are requested at most 10 times, and if
\* none of the attempts yields count URLs the upload is aborted: the empty
\* result is returned, no further chunk is uploaded, complete-upload is
\* not called.
C3_RenewalExhaustionAborts ==
    \A p \in Procs :
       LET r == rq[p] IN
         /\ r.renewCalls <= 10
         /\ r.exhausted =>
              /\ r.pc \in {"ch_renewed", "ch_defer_remove", "ch_defer_close",
                           "put_finish", "done"}
              /\ r.pc # "ch_renewed" => r.ret = "" /\ ~r.panicked
              /\ r.completes = 0

\* The backend holds the object request r created, usable.
Confirmed(r) == \E o \in remote : o.id = r.created /\ o.avail

\* C4: the FID_ entry of the PUT path is set and the object appended to the
\* parent's cached listing only when the backend confirmed the upload, the
\* complete-upload call included; after a failed step no cache entry
\* refers to the target.
C4_CacheOnlyOnConfirmedSuccess ==
    \A p \in Procs :
       LET r == rq[p] IN
         /\ (r.fidSet \/ r.listed) => r.created # "" /\ Confirmed(r)
         /\ (r.completes = 1 /\ ~r.completeOk) => ~r.fidSet /\ ~r.listed
         /\ (r.failures # {} /\ r.pc = "done")
              => ~CacheHas(cache, Key("FID_", r.path))

\* C5: every failure inside ContentHandle, the exhaustion of the renewals
\* among them, returns the empty result; handlePut then answers 400 and
\* does not set the FID_ entry of the path.
C5_FailuresAnswer400 ==
    \A p \in Procs :
       LET r == rq[p] IN
         (r.failures # {} \/ r.exhausted) =>
            /\ r.pc \in {"put_finish", "put_panic", "done"} => r.ret = "" /\ ~r.panicked
            /\ r.pc = "done" => /\ r.status = 400
                                /\ ~r.fidSet
                                /\ ~CacheHas(cache, Key("FID_", r.path))

\* C6: on every exit path of ContentHandle taken after the spool file was
\* created (a return of an id, a return of the empty result, a panic) the
\* spool file is removed: no run ends with its spool file present.
C6_SpoolFileRemoved ==
    \A p \in Procs :
       rq[p].pc \in {"put_finish", "put_panic", "done"} => ~rq[p].fileExists

\* C7: a PUT of unknown length (ContentLength < 0) is rejected: no remote
\* object is created for it and the client does not get 201.
C7_UnknownLengthRejected ==
    \A p \in Procs :
       LET r == rq[p] IN
         SzLT(r.len, Zero) =>
            /\ r.created = ""
            /\ ~\E o \in remote : o.id = FileIds[r.no]
            /\ r.status # 201

\* C8: a PUT of length 0 that reaches ContentHandle makes one create call,
\* with size 0 and the SHA-1 of the empty byte sequence; it creates no
\* spool file, uploads no chunk, asks for no probe, no renewal and no
\* complete-upload; the object the backend then holds carries that hash and
\* the response is 201.
C8_ZeroLengthDirectCreate ==
    \A p \in Procs :
       LET r == rq[p] IN
         r.len = Zero =>
            /\ ~r.spooled /\ ~r.fileExists /\ ~r.fileOpen
            /\ r.sent = <<>> /\ r.probes = 0 /\ r.completes = 0
            /\ ~r.renewed /\ r.renewCalls = 0
            /\ Len(r.creates) <= 1
            /\ \A k \in 1..Len(r.creates) :
                  /\ r.creates[k].hash = "DA39A3EE5E6B4B0D3255BFEF95601890AFD80709"
                  /\ r.creates[k].size = Zero
            /\ (r.pc = "put_finish" \/ r.status \in {201, 400}) => Len(r.creates) = 1
            /\ r.created # "" =>
                  /\ \E o \in remote :
                        /\ o.id = r.created
                        /\ o.hash = "DA39A3EE5E6B4B0D3255BFEF95601890AFD80709"
                        /\ o.avail
                  /\ r.pc = "done" => r.status = 201
            /\ r.status = 201 => r.created # ""

\* A PUT of length 0 created its object and was answered 201.
C8_Witness ==
    \E p \in Procs :
       /\ rq[p].len = Zero
       /\ rq[p].pc = "done"
       /\ rq[p].status = 201
       /\ rq[p].created # ""
       /\ Len(rq[p].creates) = 1

\* 150 KiB < n <= 25 GiB, in MiB and bytes.
InProbeRange(n) ==
    /\ n.m > 0 \/ n.b > 153600
    /\ n.m < 25600 \/ (n.m = 25600 /\ n.b = 0)

\* A create call that carries no hash, no proof and no rapid upload.
PlainArgs(a) == a.hash = "" /\ a.proof = NoProof /\ a.flash = FALSE

C10_ProofOnlyOn409 ==
    \A p \in Procs :
       LET r == rq[p] IN
         /\ r.creates = <<>> =>
              /\ r.flashUpload => r.probes = 1 /\ r.code = 409
              /\ r.proof # NoProof => r.probes = 1 /\ r.code = 409
         /\ r.pc = "ch_create_hashed" => r.sha # "" /\ r.sha = FullSha1(r.body)
         /\ (r.probes = 1 /\ r.creates # <<>>) =>
              LET a == r.creates[1] IN
                /\ a.flash <=> r.code = 409
                /\ a.proof # NoProof <=> r.code = 409
                /\ a.hash # "" /\ a.hash = FullSha1(r.body)

\* A probe that got no answer was followed by a create call with the full
\* hash, the empty proof and the flag false.
C10_Witness ==
    \E p \in Procs :
       /\ rq[p].probes = 1
       /\ rq[p].code = -1
       /\ rq[p].creates # <<>>
       /\ rq[p].creates[1].hash = "SHA1-OF-X"
       /\ rq[p].creates[1].proof = NoProof
       /\ ~rq[p].creates[1].flash

\* off is f mod n, for an f below 2^30.
IsMod(f, n, off) ==
    /\ SzLE(Zero, off)
    /\ SzLT(off, n)
    /\ IF n.m >= 1024 THEN off = Sz(0, f)
       ELSE (f - (off.m * 1048576 + off.b)) % (n.m * 1048576 + n.b) = 0

\* The proof pr of content body of n bytes is taken from the window
\* [off, min(off + 8, n)), which is not empty and lies inside the content.
IsWindow(pr, body, n, off) ==
    /\ pr.body = body
    /\ pr.from = off
    /\ pr.to = (IF SzLE(SzAdd(off, Sz(0, 8)), n) THEN SzAdd(off, Sz(0, 8)) ELSE n)
    /\ SzLT(pr.from, pr.to)
    /\ SzLE(pr.to, n)
    /\ SzLE(SzSub(pr.to, pr.from), Sz(0, 8))

\* C11: for every eligible size n and every token, the proof offset is the
\* token's hash word mod n, and the bytes read for the proof are the
\* window [offset, min(offset + 8, n)), not empty and inside the content.
\* Stated of the requests and of the harness.
C11_ProofWindow ==
    /\ \A p \in Procs :
         LET r == rq[p] IN
           r.proof # NoProof =>
              /\ InProbeRange(r.len)
              /\ IsMod(r.f, r.len, r.offset)
              /\ IsWindow(r.proof, r.body, r.len, r.offset)
    /\ calc.phase = "proof" =>
         /\ InProbeRange(calc.n)
         /\ IsMod(calc.f, calc.n, calc.offset)
         /\ IsWindow(calc.proof, "x", calc.n, calc.offset)

\* A body of 150 KiB + 1 byte and the hash word 153600: the window is the
\* last byte of the content.
C11_Witness ==
    \E p \in Procs :
       /\ rq[p].len = Sz(0, 153601)
       /\ rq[p].f = 153600
       /\ rq[p].proof = [body |-> "x", from |-> Sz(0, 153600), to |-> Sz(0, 153601)]

\* An attempt that failed: no response, or a status that is not 2xx.
NetFailed(o) == o = 0 \/ o \notin 200..299

\* C13, as the specification words it: a backend call that fails with a
\* network error or with a response that is not 2xx is retried, at most 5
\* attempts in all, and reported as failed (-1) once the budget is spent:
\* no call returns after a failed attempt that was not the fifth.
C13_EveryFailureRetried ==
    /\ Len(net.tried) <= 5
    /\ (net.pc = "done" /\ net.tried # <<>> /\ NetFailed(net.tried[Len(net.tried)]))
         => Len(net.tried) = 5 /\ net.ret = -1

\* C13, amended: PostExpectStatus repeats a request only when it got no
\* response (a network error), at most 5 attempts in all, and returns -1
\* when all 5 got none; any response, 2xx or not, ends the call at once
\* with its status code (-1 if its body cannot be read). Put repeats a
\* request that got no response or a status other than 200, at most 5
\* attempts in all, and returns -1 when the budget is spent, 0 after a 200.
C13_RetryBudget ==
    /\ Len(net.tried) <= 5
    /\ net.pc = "loop" => Len(net.tried) < 5
    /\ net.fn = "post" =>
         /\ \A k \in 1..(Len(net.tried) - 1) : net.tried[k] = 0
         /\ (net.pc = "done" /\ net.tried # <<>>) =>
              LET o == net.tried[Len(net.tried)] IN
                IF o = 0 THEN Len(net.tried) = 5 /\ net.ret = -1
                ELSE net.ret = (IF net.read THEN o ELSE -1)
    /\ net.fn = "put" =>
         /\ \A k \in 1..(Len(net.tried) - 1) : net.tried[k] # 200
         /\ (net.pc = "done" /\ net.tried # <<>>) =>
              LET o == net.tried[Len(net.tried)] IN
                IF o # 200 THEN Len(net.tried) = 5 /\ net.ret = -1
                ELSE net.ret = (IF net.read THEN 0 ELSE -1)

\* PostExpectStatus got no response once and then a 500, which it returned.
C13_Witness ==
    /\ net.fn = "post"
    /\ net.pc = "done"
    /\ net.tried = <<0, 500>>
    /\ net.ret = 500

\* The drive held, before request r created anything, a complete file of
\* the content r carries.
HeldBefore(r) ==
    \E o \in remote :
       o.id # r.created /\ o.avail /\ o.hash = FullSha1(r.body) /\ o.size = r.len

SameNameOtherParent(d) ==
    /\ d.pc = "done" /\ d.method \in {"COPY", "MOVE"} /\ d.dst # <<"">>
    /\ Last(d.src) = Last(d.dst)
    /\ ParentArr(d.src) # ParentArr(d.dst)

\* C14: a COPY or MOVE to the same name under another parent is served by
\* the move branch, with one BatchFile call and the answer 204 (or, when
\* source or parent are not found, no call and 404), never by the generic
\* copy or move, whatever the two parents are.
C14_SameNameIsOneBatchMove ==
    SameNameOtherParent(dav) =>
       /\ dav.branch = "move"
       /\ ~dav.panicked
       /\ dav.status \in {204, 404}
       /\ dav.status = 204 => Len(dav.calls) = 1 /\ dav.calls[1][1] = "BatchFile"
       /\ dav.status = 404 => dav.calls = <<>>

\* The last request was served with a call that changes the drive: the
\* object at its path was trashed, renamed or moved.
Mutated(d) ==
    /\ d.pc = "done" /\ d.no = nreq /\ d.calls # <<>>
    /\ d.calls[1][1] \in {"RemoveTrash", "ReName", "BatchFile"}

\* C15: after a DELETE, a rename or a move the cache has no entry under
\* FID_ for the path the request changed, and none for the path of its
\* parent; the handlers store none, so an entry there is older than the
\* change. In particular FID_src is gone after a rename of src.
C15_NoStaleEntryAfterMutation ==
    Mutated(dav) =>
       /\ ~CacheHas(cache, Key("FID_", dav.src))
       /\ ~CacheHas(cache, Key("FID_", ParentArr(dav.src)))

\* The ids of the objects of drive R at path: those of that name in the
\* folder the segments before it lead to.
ObjectsAt(R, path) ==
    IF ParentArr(path) \in DOMAIN Folders
    THEN {o.id : o \in {x \in R : x.parent = Folders[ParentArr(path)] /\ x.name = Last(path)}}
    ELSE {}

\* C16: a DELETE whose path leads to no object trashes nothing and is
\* answered 404; one that trashes, trashes one object, which is at the
\* path, and removes the cache entries of the path and of the object's id.
C16_DeleteTrashesOrAnswers404 ==
    (/\ dav.pc = "done" /\ dav.no = nreq /\ Authorized(dav.auth)
     /\ dav.method = "DELETE" /\ dav.rooted) =>
       LET at == ObjectsAt(dav.remote0, dav.src) IN
         /\ at = {} => dav.status = 404 /\ dav.calls = <<>>
         /\ dav.calls # <<>> =>
              /\ Len(dav.calls) = 1
              /\ dav.calls[1][1] = "RemoveTrash" /\ dav.calls[1][2] \in at
              /\ ~CacheHas(cache, Key("FID_", dav.src))
              /\ ~CacheHas(cache, Key("FI_", <<dav.calls[1][2]>>))

\* The lock tokens a request presents in its If header.
Presented(ih) ==
    UNION {{ih.lists[k].conds[j] : j \in 1..Len(ih.lists[k].conds)} : k \in 1..Len(ih.lists)}
    \ {0}

\* The paths a request changes: a COPY its destination, a MOVE both its
\* source and its destination, the others their path.
Targets(d) ==
    CASE d.method = "COPY" -> {d.dst}
      [] d.method = "MOVE" -> {d.src, d.dst}
      [] OTHER -> {d.src}

\* A lock of table L, taken by another client, covers one of the paths.
LockedByOther(L, paths, tokens) ==
    \E l \in L, q \in paths : q # <<"">> /\ Covers(l, q) /\ l.token \notin tokens

\* C17: a PUT, DELETE, MOVE, COPY or PROPPATCH on a path that a lock of
\* another client covers is answered 423 or 412 and calls nothing that
\* changes the drive.
C17_LockedPathIsRefused ==
    /\ (/\ dav.pc = "done" /\ dav.no = nreq /\ dav.rooted /\ Authorized(dav.auth)
        /\ dav.method \in {"DELETE", "MOVE", "COPY", "PROPPATCH"}
        /\ LockedByOther(dav.ls0.locks, Targets(dav), Presented(dav.ifh)))
       => dav.status \in {423, 412} /\ dav.calls = <<>>
    /\ \A p \in Procs :
          (/\ rq[p].pc = "done" /\ rq[p].no = nreq /\ rq[p].rooted
           /\ LockedByOther(ls.locks, {rq[p].path}, {}))
          => rq[p].status \in {423, 412} /\ rq[p].creates = <<>>

\* The request went through confirmLocks without an If header.
TookTempLocks(d) ==
    /\ d.method \in {"COPY", "PROPPATCH", "confirmLocks"}
    /\ d.ifh.hdr = ""
    /\ d.csrc # <<"">> \/ d.cdst # <<"">>

\* C18: without an If header confirmLocks locks the source and the
\* destination it is given, each with a temporary lock of depth zero, for
\* as long as the handler runs; once the request is over, served or
\* refused, none of the locks it took is in the lock table, which is as the
\* request found it.
C18_TempLocksReleased ==
    /\ (dav.pc = "body" /\ TookTempLocks(dav)) =>
          \A q \in {dav.csrc, dav.cdst} \ {<<"">>} :
             \E l \in ls.locks : l.token \in dav.temp /\ l.root = q /\ l.zeroDepth
    /\ dav.pc = "done" =>
          /\ \A l \in ls.locks : l.token \notin dav.temp
          /\ TookTempLocks(dav) => ls.locks = dav.ls0.locks

\* The source was locked, the lock of the destination failed on a lock of
\* another client, the request was refused with 423 and the lock of the
\* source is gone.
C18_Witness ==
    /\ dav.pc = "done" /\ dav.status = 423
    /\ TookTempLocks(dav) /\ dav.csrc # <<"">> /\ dav.cdst # <<"">>
    /\ dav.temp # {}
    /\ \E l \in ls.locks : l.root = dav.cdst
    /\ ~\E l \in ls.locks : l.root = dav.csrc

\* The request has called confirmLocks.
Confirming(d) ==
    /\ d.pc \in {"body", "done"}
    /\ \/ d.method = "confirmLocks"
       \/ d.method = "PROPPATCH" /\ d.rooted
       \/ d.method = "COPY" /\ d.branch = "generic"

\* The lists of the If header of d that are tagged with the request's host
\* or not at all, name a resource of the handler, and whose conditions the
\* lock table the request found confirms.
ConfirmedLists(d) ==
    {k \in 1..Len(d.ifh.lists) :
       LET l == d.ifh.lists[k] IN
         /\ l.tag \in {"", "here"}
         /\ ConfirmOk(d.ls0.locks, IF l.tag = "" THEN d.csrc ELSE l.path, d.cdst, l.conds)}

\* C19: with an If header that parses, confirmLocks goes on with the first
\* list that matches and is confirmed; if there is none the request is
\* answered 412, whatever the other lists are.
C19_FirstConfirmedListOr412 ==
    (Confirming(dav) /\ ParseOk(dav.ifh)) =>
       IF ConfirmedLists(dav) = {}
       THEN dav.pc = "done" /\ dav.status = 412 /\ dav.used = 0
       ELSE /\ dav.used \in ConfirmedLists(dav)
            /\ \A k \in ConfirmedLists(dav) : dav.used <= k

\* A LOCK request without a body was served, its Timeout header well formed.
RefreshServed(d) ==
    /\ d.pc = "done" /\ Authorized(d.auth)
    /\ d.method = "LOCK" /\ d.body = "" /\ d.dur # BadTimeout

\* The If header names one lock token and nothing else.
OneToken(ih) ==
    /\ ParseOk(ih) /\ Len(ih.lists) = 1 /\ Len(ih.lists[1].conds) = 1
    /\ ih.lists[1].conds[1] # 0

\* C20: a LOCK request without a body whose If header names one token of
\* a lock in the table is answered 200 with that token; the lock has the
\* duration asked for, and nothing else has changed: no lock is added, no
\* token handed out, no backend call made. With one token that is in no
\* lock it is answered 412, with none or several 400, and the lock table is
\* as before.
C20_EmptyBodyRefreshes ==
    RefreshServed(dav) =>
       LET t == dav.ifh.lists[1].conds[1] IN
         /\ dav.status # 201
         /\ dav.calls = <<>>
         /\ ls.gen = dav.ls0.gen
         /\ IF ~OneToken(dav.ifh)
            THEN dav.status = 400 /\ ls = dav.ls0
            ELSE IF ~\E l \in dav.ls0.locks : l.token = t
            THEN dav.status = 412 /\ ls = dav.ls0
            ELSE /\ dav.status = 200
                 /\ dav.granted = t
                 /\ ls.locks = {IF l.token = t THEN [l EXCEPT !.dur = dav.dur] ELSE l :
                                  l \in dav.ls0.locks}

\* The lock with token 1, of infinite duration, was refreshed to 5 seconds.
C20_Witness ==
    /\ RefreshServed(dav) /\ OneToken(dav.ifh)
    /\ dav.status = 200 /\ dav.granted = 1 /\ dav.dur = 5
    /\ \E l \in dav.ls0.locks : l.token = 1 /\ l.dur = -1
    /\ \E l \in ls.locks : l.token = 1 /\ l.dur = 5

\* The last request served, if it passed the authorization and went
\* through a handler other than handlePut.
Handled(d) == d.pc = "done" /\ d.no = nreq /\ Authorized(d.auth)

\* The request carries a Depth, If, Lock-Token or Timeout header that is
\* malformed for its method.
Malformed(d) ==
    \/ d.method = "PROPFIND" /\ DepthOf(d.depth) = invalidDepth
    \/ d.method = "LOCK" /\ d.body # "" /\ DepthOf(d.depth) \notin {0, infiniteDepth}
    \/ d.method = "LOCK" /\ d.dur = BadTimeout
    \/ d.method = "UNLOCK" /\ d.token = BadToken
    \/ d.ifh.hdr # "" /\ ~ParseOk(d.ifh)

\* C21: a request with a malformed Depth, If, Lock-Token or Timeout header
\* is answered 400, and no backend call has been made for it.
C21_MalformedHeaderIs400BeforeBackend ==
    (Handled(dav) /\ Malformed(dav)) =>
       (dav.status = 400 /\ dav.calls = <<>> /\ dav.reads = {})

\* A PROPFIND was served for a target that Walk found.
Found(d) == Handled(d) /\ d.method = "PROPFIND" /\ d.target # ""

\* No element of the sequence occurs twice.
NoDup(seq) == Cardinality(Elems(seq)) = Len(seq)

\* id is top or lies below it.
RECURSIVE Under(_, _)
Under(id, top) ==
    \/ id = top
    \/ id # "root" /\ FileDetail(id) # NoFile /\ Under(FileDetail(id).ParentFileId, top)

\* The nodes of the drive from top down.
Subtree(top) == {c \in Elems(AllIds) : Listed(c) /\ Under(c, top)}

\* C22: parseDepth maps "0", "1" and "infinity" to 0, 1 and infiniteDepth
\* and any other string to invalidDepth. A PROPFIND on an existing target
\* with such a Depth is answered 400; one that is answered with a
\* multi-status has one response for the target with Depth 0, for the
\* target and each of its direct children with Depth 1, and for each node
\* of the subtree with Depth infinity or without the header.
C22_DepthSelectsResponses ==
    /\ parseDepth("0") = 0 /\ parseDepth("1") = 1 /\ parseDepth("infinity") = infiniteDepth
    /\ \A x \in (Depths \cup {"Infinity", "00", "-1"}) \ {"0", "1", "infinity"} :
          parseDepth(x) = invalidDepth
    /\ Found(dav) =>
         LET depth == DepthOf(dav.depth)
             out == dav.out
             target == dav.target
         IN
           /\ depth = invalidDepth => dav.status = 400 /\ out = <<>>
           /\ (depth # invalidDepth /\ dav.status = 200) =>
                /\ NoDup(out)
                /\ Head(out) = target
                /\ depth = 0 => out = <<target>>
                /\ depth = 1 => Elems(out) = {target} \cup Elems(Children(target))
                /\ depth = infiniteDepth => Elems(out) = Subtree(target)

\* A PROPFIND of Depth 1 on the root was answered with the root and its
\* children, and the root has grandchildren.
C22_Witness ==
    /\ Found(dav) /\ dav.status = 200 /\ dav.target = "root" /\ dav.depth = "1"
    /\ Len(dav.out) >= 4
    /\ Subtree("root") # Elems(dav.out)

\* C23: a PROPFIND whose body asks for the quota is answered with the one
\* quota response; Walk is not called and the cache is neither read nor
\* written.
C23_QuotaShortCircuits ==
    (Handled(dav) /\ dav.method = "PROPFIND" /\ dav.body = "quota") =>
       /\ dav.out = <<"quota">>
       /\ "Walk" \notin dav.reads
       /\ ~dav.cread
       /\ cache = dav.cache0

\* A MKCOL request was served.
Mkcol(d) == Handled(d) /\ d.method = "MKCOL"

\* The request made MakeDir create no folder and left no entry for its
\* path in the cache that was not there before.
NothingMade(d) ==
    /\ \A i \in 1..Len(d.calls) : d.calls[i][1] # "MakeDir"
    /\ remote = d.remote0
    /\ CacheHas(cache, Key("FID_", d.src)) => CacheHas(d.cache0, Key("FID_", d.src))

\* C24: MKCOL with a body is answered 415, MKCOL in a folder that does not
\* exist 409; neither creates a folder nor caches an id for the path.
C24_MkcolBodyOrNoParent ==
    /\ (Mkcol(dav) /\ dav.body # "") => (dav.status = 415 /\ NothingMade(dav))
    /\ (Mkcol(dav) /\ dav.body = "" /\ ParentArr(dav.src) \notin DOMAIN Folders) =>
          (dav.status = 409 /\ NothingMade(dav))

\* C25: MKCOL for the path of a folder that exists is answered 409, 412 or
\* 423, and MakeDir is not called.
C25_DuplicateFolderIsConflict ==
    (Mkcol(dav) /\ dav.body = "" /\ dav.src # <<"">> /\ dav.src \in DOMAIN Folders) =>
       /\ dav.status \in {409, 412, 423}
       /\ \A i \in 1..Len(dav.calls) : dav.calls[i][1] # "MakeDir"

\* C26: when a handler returns an error, or the method has no handler,
\* the status ServeHTTP writes is a 4xx or 5xx one; the response is never
\* the 200 that is sent when no status is written.
C26_ErrorsAreErrorStatuses ==
    (Handled(dav) /\ dav.err) => dav.status \in 400..599

ResolvedAfterInvalidation(d) ==
    /\ Handled(d) /\ d.method \in {"DELETE", "COPY", "MOVE", "GET"}
    /\ d.src \in d.inval /\ d.cread
    /\ d.calls # <<>> \/ d.target # ""

\* C29: when a path is resolved after its cache entry was invalidated, the
\* lookup misses and the path is walked on the backend before an id is
\* used for it.
C29_InvalidatedPathIsWalked ==
    ResolvedAfterInvalidation(dav) =>
       /\ ~CacheHas(dav.cache0, Key("FID_", dav.src))
       /\ "Walk" \in dav.reads

\* The request of client p has been dispatched to its handler.
Dispatched(p) == cfg.c[p].pc \in {"token", "drive", "done"}

\* C27: no request is dispatched with a token whose expiry time has
\* passed; such a token is refreshed on entry.
C27_NoDispatchWithExpiredToken ==
    \A p \in Clients : Dispatched(p) => ~(cfg.c[p].exp < cfg.c[p].at)

\* C28: the token and the drive id of one backend call come from the same
\* Config.
C28_TokenAndDriveOfOneSnapshot ==
    \A p \in Clients : cfg.c[p].pc = "done" => cfg.c[p].tok = cfg.c[p].drv

\* C31: a GET or a HEAD whose path resolves to a folder is answered 405,
\* and neither a download URL is asked for nor content sent.
C31_FolderIs405WithoutDownload ==
    (/\ Handled(dav) /\ dav.method \in {"GET", "HEAD"}
     /\ dav.target # "" /\ IsFolder(dav.target)) =>
       /\ dav.status = 405
       /\ "GetDownloadUrl" \notin dav.reads
       /\ "GetFile" \notin dav.reads

\* C36: a LOCK request that returns an error leaves the locks of the lock
\* table as they were before it, also when it had created its lock.
C36_FailedLockLeavesTable ==
    (Handled(dav) /\ dav.method = "LOCK" /\ dav.err) =>
       [ls EXCEPT !.gen = dav.ls0.gen] = dav.ls0

\* A LOCK request was answered 409 after it had created a lock, while
\* another lock was in the table.
C36_Witness ==
    /\ Handled(dav) /\ dav.method = "LOCK" /\ dav.err /\ dav.status = 409
    /\ ls.gen = dav.ls0.gen + 1
    /\ dav.ls0.locks # {}

\* C37: a COPY or MOVE served by the move branch never slices a path with
\* a negative bound, and once BatchFile is called the request is answered
\* 204 and the cache holds no FID_ entry for the source, the destination
\* or their parents.
C37_MoveNeverSlicesNegative ==
    (Handled(dav) /\ dav.branch = "move") =>
       /\ ~dav.panicked
       /\ dav.calls # <<>> =>
            /\ dav.status = 204
            /\ \A q \in {dav.src, dav.dst, ParentArr(dav.src), ParentArr(dav.dst)} :
                  ~CacheHas(cache, Key("FID_", q))

\* A DELETE trashed the folder that the MKCOL before it had created for
\* the same path.
DeletedCreated(d) ==
    /\ Handled(d) /\ d.method = "DELETE" /\ d.status = 204 /\ d.no = 2
    /\ d.calls = <<<<"RemoveTrash", FileIds[1]>>>>
    /\ \E o \in d.remote0 : o.id = FileIds[1] /\ o.type = "folder"

\* C39: after a MKCOL of a path and a DELETE of it have succeeded, the
\* cache has no entry for the path and none that holds the metadata of
\* the folder created.
C39_NoEntryAfterMkcolDelete ==
    DeletedCreated(dav) =>
       /\ ~CacheHas(cache, Key("FID_", dav.src))
       /\ \A k \in DOMAIN cache : k[2] = <<FileIds[1]>> => k[1] \notin {"FI_", "FI"}


\* C38: a PUT creates its object only under the folder its path's parent
\* resolves to: a request that made a create call under the root is one
\* whose path has the root as its parent (an unresolved parent is answered
\* 409 before any create call).
C38_CreatesUnderRootOnlyForRootParent ==
    \A p \in Procs :
       (rq[p].creates # <<>> /\ rq[p].parentId = "root") =>
          ParentArr(rq[p].path) = <<"">>


\* The fields of the configuration that hold credentials.
Credentials == {"RefreshToken", "Token", "DriveId"}

\* C35: a failed credential refresh (RefreshToken returns the empty
\* result), from the periodic task or from the on-entry check, leaves the
\* shared configuration as it was: the refresh token, the access token and
\* the drive id held are never the empty ones of a failed refresh.
C35_FailedRefreshKeepsCredentials ==
    \A f \in Credentials : cfg.Config[f] # NoCredential


\* C34: whenever the part loop indexes the upload-URL list (to read the
\* expiry of part i's URL, or to upload part i), the list has exactly count
\* entries, whether it came from the create call or from a renewal; so i is
\* a valid index and the loop never panics.
C34_UrlListHasCountEntriesWhenIndexed ==
    \A p \in Procs :
       /\ rq[p].pc \in {"ch_expiry", "ch_upload"} => rq[p].uploadUrl.n = rq[p].count
       /\ ~rq[p].panicked


\* The goroutine of r is inside ContentHandle.
InContentHandle(r) == r.pc \in {"ch_start", "zero_get", "zero_set"}

\* C32: at most one upload runs at a time for a path: for any interleaving
\* of PUT requests to the same path ContentHandle is never executing in
\* two of them at once, and a PUT turned away by the IN_PROGRESS guard
\* makes no create call.
C32_OneUploadPerPath ==
    /\ \A p, q \in Racers :
          (/\ p # q /\ rq[p].path = rq[q].path
           /\ InContentHandle(rq[p])) => ~InContentHandle(rq[q])
    /\ \A p \in Racers :
          (rq[p].pc = "done" /\ ~rq[p].marked) => rq[p].creates = <<>>

\* The listing cached under the parent id of r.
CachedListing(r) == cache[Key("", <<r.parentId>>)]

\* The request uploaded its object and appended the object's entry to
\* the cached listing of the parent.
Appended(r) ==
    /\ r.pc = "done" /\ r.status = 201
    /\ r.listed /\ r.l # <<>> /\ r.l[Len(r.l)] = r.created

\* C33: after successful uploads into one parent folder whose listing is
\* cached under the parent id, in any interleaving, the cached listing has
\* an entry for every uploaded object.
C33_ListingLosesNoUpload ==
    (\A p \in Racers : Appended(rq[p])) =>
       \A p \in Racers :
          \E k \in 1..Len(CachedListing(rq[p])) :
             CachedListing(rq[p])[k] = rq[p].created

====
